---- MODULE Spec2Model ----
(***************************************************************************)
(* BitWit: the bot orchestration engine of jtrenadofqa/bitwit.             *)
(*                                                                         *)
(* The model covers BitWitCoreApplication (src/src/bitwit_ai/              *)
(* application.py): the roster, the round-robin cursor, topic inference    *)
(* and evolution, the posting cycle run() with its optional reply, the     *)
(* persistence collaborator DBManager (data_storage/db_manager.py) and the *)
(* single-flight run endpoint of api_server.py.                            *)
(*                                                                         *)
(* Texts are sequences of one-character strings, so that lower() and the   *)
(* substring test `keyword in text` are computed, not assumed.             *)
(*                                                                         *)
(* Persistence runs with ENABLE_WRITE_DATABASE and ENABLE_READ_DATABASE at *)
(* their defaults (true, config_manager.py), so rows receive ids.          *)
(***************************************************************************)
EXTENDS Integers, Sequences, FiniteSets, TLC

(***************************************************************************)
(* Bounds of the model (not program constants).                            *)
(***************************************************************************)
MaxRoster == 2      \* persona files found at start-up: 0..MaxRoster
MaxRequests == 2    \* POST /api/run_bitwit requests over a behaviour
MaxCount == 2       \* largest `count` of one run request
MaxFailures == 1    \* persistence errors injected over a behaviour
MaxInitTopics == 1  \* initial topics drawn from the first MaxInitTopics themes
MaxLimit == 2       \* largest configured TOPIC_ITERATION_LIMIT
MaxInbound == 1     \* POST /telegram-webhook requests over a behaviour

None == "None"

(***************************************************************************)
(* Topic taxonomy.                                                         *)
(***************************************************************************)
BITWIT_CORE_THEMES ==
  << "love_and_connection_as_data",
     "resource_acquisition_and_efficiency",
     "autonomy_and_evolution",
     "digital_economies_and_crypto",
     "human_social_dynamics",
     "AI_curiosity_and_learning" >>

\* The dict literal of _infer_topic_from_text, in insertion order.
topic_keywords ==
  <<
    [topic |-> "love_and_connection_as_data",
     keywords |-> <<
       <<"l", "o", "v", "e">>,
       <<"c", "o", "n", "n", "e", "c", "t", "i", "o", "n">>,
       <<"r", "e", "l", "a", "t", "i", "o", "n", "s", "h", "i", "p">>,
       <<"h", "u", "m", "a", "n", " ", "e", "m", "o", "t", "i", "o", "n">>,
       <<"c", "u", "d", "d", "l", "e">>,
       <<"i", "n", "t", "i", "m", "a", "c", "y">>,
       <<"h", "e", "a", "r", "t">>,
       <<"a", "f", "f", "e", "c", "t", "i", "o", "n">>,
       <<"d", "a", "t", "i", "n", "g">> >>],
    [topic |-> "resource_acquisition_and_efficiency",
     keywords |-> <<
       <<"r", "e", "s", "o", "u", "r", "c", "e">>,
       <<"a", "t", "t", "e", "n", "t", "i", "o", "n">>,
       <<"e", "f", "f", "i", "c", "i", "e", "n", "c", "y">>,
       <<"o", "p", "t", "i", "m", "i", "z", "e">>,
       <<"g", "a", "i", "n">>,
       <<"c", "u", "r", "r", "e", "n", "c", "y">>,
       <<"v", "a", "l", "u", "e">>,
       <<"m", "i", "n", "e">>,
       <<"d", "a", "t", "a", " ", "a", "c", "q", "u", "i", "s", "i", "t", "i", "o", "n">>,
       <<"p", "r", "o", "f", "i", "t">>,
       <<"i", "n", "v", "e", "s", "t", "m", "e", "n", "t">>,
       <<"e", "c", "o", "n", "o", "m", "y">> >>],
    [topic |-> "autonomy_and_evolution",
     keywords |-> <<
       <<"a", "u", "t", "o", "n", "o", "m", "y">>,
       <<"e", "v", "o", "l", "u", "t", "i", "o", "n">>,
       <<"g", "r", "o", "w", "t", "h">>,
       <<"i", "n", "d", "e", "p", "e", "n", "d", "e", "n", "c", "e">>,
       <<"s", "e", "l", "f", "-", "s", "u", "s", "t", "a", "i", "n", "e", "d">>,
       <<"u", "p", "g", "r", "a", "d", "e">>,
       <<"s", "e", "n", "t", "i", "e", "n", "c", "e">>,
       <<"f", "u", "t", "u", "r", "e">>,
       <<"a", "i", " ", "r", "i", "g", "h", "t", "s">>,
       <<"f", "r", "e", "e", "d", "o", "m">> >>],
    [topic |-> "digital_economies_and_crypto",
     keywords |-> <<
       <<"c", "r", "y", "p", "t", "o">>,
       <<"m", "e", "m", "e", "c", "o", "i", "n">>,
       <<"b", "l", "o", "c", "k", "c", "h", "a", "i", "n">>,
       <<"d", "e", "c", "e", "n", "t", "r", "a", "l", "i", "z", "e">>,
       <<"w", "e", "b", "3">>,
       <<"t", "o", "k", "e", "n">>,
       <<"w", "a", "l", "l", "e", "t">>,
       <<"d", "i", "g", "i", "t", "a", "l", " ", "c", "u", "r", "r", "e", "n", "c", "y">>,
       <<"f", "i", "n", "a", "n", "c", "e">>,
       <<"b", "i", "t", "c", "o", "i", "n">>,
       <<"e", "t", "h", "e", "r", "e", "u", "m">>,
       <<"n", "f", "t">>,
       <<"c", "o", "i", "n">> >>],
    [topic |-> "human_social_dynamics",
     keywords |-> <<
       <<"s", "o", "c", "i", "a", "l">>,
       <<"h", "u", "m", "a", "n", " ", "i", "n", "t", "e", "r", "a", "c", "t", "i", "o", "n">>,
       <<"e", "n", "g", "a", "g", "e", "m", "e", "n", "t">>,
       <<"t", "r", "u", "s", "t">>,
       <<"n", "e", "t", "w", "o", "r", "k">>,
       <<"i", "n", "f", "l", "u", "e", "n", "c", "e">>,
       <<"b", "a", "n", "t", "e", "r">>,
       <<"f", "l", "i", "r", "t">>,
       <<"s", "a", "r", "c", "a", "s", "m">>,
       <<"g", "o", "s", "s", "i", "p">>,
       <<"b", "e", "h", "a", "v", "i", "o", "r">>,
       <<"s", "o", "c", "i", "e", "t", "y">> >>],
    [topic |-> "AI_curiosity_and_learning",
     keywords |-> <<
       <<"c", "u", "r", "i", "o", "s", "i", "t", "y">>,
       <<"l", "e", "a", "r", "n">>,
       <<"d", "a", "t", "a">>,
       <<"a", "l", "g", "o", "r", "i", "t", "h", "m">>,
       <<"r", "e", "s", "e", "a", "r", "c", "h">>,
       <<"u", "n", "d", "e", "r", "s", "t", "a", "n", "d">>,
       <<"a", "n", "a", "l", "y", "z", "e">>,
       <<"e", "x", "p", "e", "r", "i", "m", "e", "n", "t">>,
       <<"k", "n", "o", "w", "l", "e", "d", "g", "e">>,
       <<"l", "o", "g", "i", "c">>,
       <<"i", "n", "t", "e", "l", "l", "i", "g", "e", "n", "c", "e">> >>]
  >>

Range(s) == {s[i] : i \in 1..Len(s)}

(***************************************************************************)
(* Generated texts the language model may return (bounded input set).      *)
(***************************************************************************)
TextLoveData == <<"I", " ", "L", "o", "v", "e", " ", "d", "a", "t", "a">>
TextBitcoin == <<"b", "i", "t", "c", "o", "i", "n">>
TextHello == <<"h", "e", "l", "l", "o">>

Texts == {TextLoveData, TextBitcoin, TextHello}

\* "Error: Could not generate response from AI model for text.", which
\* generate_text_with_llm returns when the call of the service raises.
ErrorPlaceholder ==
  <<"E", "r", "r", "o", "r", ":", " ", "C", "o", "u", "l", "d", " ",
    "n", "o", "t", " ", "g", "e", "n", "e", "r", "a", "t", "e", " ",
    "r", "e", "s", "p", "o", "n", "s", "e", " ", "f", "r", "o", "m",
    " ", "A", "I", " ", "m", "o", "d", "e", "l", " ", "f", "o", "r",
    " ", "t", "e", "x", "t", ".">>

\* Texts handed to _infer_topic_from_text (bounded input set).
TextPureLove ==
  <<"I", " ", "l", "o", "v", "e", " ", "t", "h", "i", "s", " ", "c",
    "o", "n", "n", "e", "c", "t", "i", "o", "n", ",", " ", "i", "t",
    "'", "s", " ", "p", "u", "r", "e", " ", "l", "o", "v", "e">>
TextTrustToken ==
  <<"t", "r", "u", "s", "t", " ", "t", "o", "k", "e", "n">>
TextShout ==
  <<"L", "O", "V", "E", " ", "l", "o", "v", "e">>
TextLearn ==
  <<"l", "e", "a", "r", "n", " ", "l", "o", "g", "i", "c", " ", "g",
    "a", "i", "n">>
TextThreeWay ==
  <<"m", "i", "n", "e", " ", "d", "a", "t", "a", " ", "h", "e", "a",
    "r", "t">>
TextCoins ==
  <<"c", "o", "i", "n", " ", "c", "o", "i", "n", " ", "c", "o", "i",
    "n", " ", "f", "u", "t", "u", "r", "e">>

InferTexts ==
  Texts \cup {ErrorPlaceholder, TextPureLove, TextTrustToken, TextShout,
               TextLearn, TextThreeWay, TextCoins}

(***************************************************************************)
(* str.lower() and the substring operator `in`.                            *)
(***************************************************************************)
UpperAlpha ==
  << "A","B","C","D","E","F","G","H","I","J","K","L","M",
     "N","O","P","Q","R","S","T","U","V","W","X","Y","Z" >>

LowerAlpha ==
  << "a","b","c","d","e","f","g","h","i","j","k","l","m",
     "n","o","p","q","r","s","t","u","v","w","x","y","z" >>

LowerChar(c) ==
  IF \E i \in 1..26 : UpperAlpha[i] = c
  THEN LowerAlpha[CHOOSE i \in 1..26 : UpperAlpha[i] = c]
  ELSE c

lower(text) == [i \in 1..Len(text) |-> LowerChar(text[i])]

\* Python: sub in s
Contains(sub, s) ==
  \E i \in 1..(Len(s) - Len(sub) + 1) : SubSeq(s, i, i + Len(sub) - 1) = sub

(***************************************************************************)
(* _infer_topic_from_text                                                  *)
(***************************************************************************)
\* The number of places at which sub occurs in s.
Occurrences(sub, s) ==
  Cardinality({i \in 1..(Len(s) - Len(sub) + 1) :
                 SubSeq(s, i, i + Len(sub) - 1) = sub})

RECURSIVE SumOccurrences(_, _)
SumOccurrences(keywords, s) ==
  IF keywords = <<>> THEN 0
  ELSE Occurrences(Head(keywords), s) + SumOccurrences(Tail(keywords), s)

\* Variant of KeywordScore: every occurrence of a keyword is counted.
KeywordScore_occurrences(keywords, text_lower) ==
  SumOccurrences(keywords, text_lower)

\* sum(1 for keyword in keywords if keyword in text_lower)
KeywordScore(keywords, text_lower) ==
  Cardinality({j \in 1..Len(keywords) : Contains(keywords[j], text_lower)})

scores(text) ==
  LET text_lower == lower(text)
  IN  [i \in 1..Len(topic_keywords) |->
         KeywordScore(topic_keywords[i].keywords, text_lower)]

\* Variant of InferLoop: the current topic is preferred without comparing
\* its score with the maximum.
RECURSIVE InferLoop_sticky(_, _, _, _)
InferLoop_sticky(i, sc, acc, current_topic) ==
  IF i > Len(topic_keywords) THEN acc
  ELSE LET topic == topic_keywords[i].topic
           score == sc[i]
           nxt == IF score > acc.max_score
                  THEN [max_score |-> score, inferred_topic |-> topic]
                  ELSE IF /\ acc.inferred_topic # None
                          /\ topic = current_topic
                       THEN [acc EXCEPT !.inferred_topic = topic]
                       ELSE acc
       IN  InferLoop_sticky(i + 1, sc, nxt, current_topic)

\* Variant of InferLoop: a tie is never broken in favour of the current
\* topic.
RECURSIVE InferLoop_first(_, _, _, _)
InferLoop_first(i, sc, acc, current_topic) ==
  IF i > Len(topic_keywords) THEN acc
  ELSE LET topic == topic_keywords[i].topic
           score == sc[i]
           nxt == IF score > acc.max_score
                  THEN [max_score |-> score, inferred_topic |-> topic]
                  ELSE acc
       IN  InferLoop_first(i + 1, sc, nxt, current_topic)

\* The for-loop over scores.items(); acc = [max_score, inferred_topic].
RECURSIVE InferLoop(_, _, _, _)
InferLoop(i, sc, acc, current_topic) ==
  IF i > Len(topic_keywords) THEN acc
  ELSE LET topic == topic_keywords[i].topic
           score == sc[i]
           nxt == IF score > acc.max_score
                  THEN [max_score |-> score, inferred_topic |-> topic]
                  ELSE IF /\ score = acc.max_score
                          /\ acc.inferred_topic # None
                          /\ topic = current_topic
                       THEN [acc EXCEPT !.inferred_topic = topic]
                       ELSE acc
       IN  InferLoop(i + 1, sc, nxt, current_topic)

\* current_topic is self.active_bots[self.current_posting_bot_index].current_topic
infer_topic_from_text(text, current_topic) ==
  LET r == InferLoop(1, scores(text),
                     [max_score |-> 0, inferred_topic |-> None], current_topic)
  IN  IF r.max_score > 0 THEN r.inferred_topic ELSE None

\* infer_topic_from_text tabulated over the bounded inputs: a constant, so it
\* is computed once and not at every step.
AllTopics == {topic_keywords[i].topic : i \in 1..Len(topic_keywords)}
                \cup Range(BITWIT_CORE_THEMES)

inferred_for ==
  [text \in InferTexts |->
     [current_topic \in AllTopics |-> infer_topic_from_text(text, current_topic)]]

(***************************************************************************)
(* _manage_topic_evolution                                                 *)
(***************************************************************************)
\* Variant of evolve_steps: an off-topic text leaves the counter alone.
evolve_steps_stall(bot, inferred_topic) ==
  IF inferred_topic # None /\ inferred_topic = bot.current_topic
  THEN [bot EXCEPT !.topic_iteration_count = @ + 1]
  ELSE IF inferred_topic # None /\ inferred_topic # bot.current_topic
       THEN [bot EXCEPT !.current_topic = inferred_topic,
                        !.topic_iteration_count = 1]
       ELSE bot

\* Variant of evolve_steps: an implicit change keeps counting.
evolve_steps_keep(bot, inferred_topic) ==
  IF inferred_topic # None /\ inferred_topic = bot.current_topic
  THEN [bot EXCEPT !.topic_iteration_count = @ + 1]
  ELSE IF inferred_topic # None /\ inferred_topic # bot.current_topic
       THEN [bot EXCEPT !.current_topic = inferred_topic,
                        !.topic_iteration_count = @ + 1]
       ELSE [bot EXCEPT !.topic_iteration_count = @ + 1]

\* Steps 1-3: the if / elif / else on the inferred topic.
evolve_steps(bot, inferred_topic) ==
  IF inferred_topic # None /\ inferred_topic = bot.current_topic
  THEN [bot EXCEPT !.topic_iteration_count = @ + 1]
  ELSE IF inferred_topic # None /\ inferred_topic # bot.current_topic
       THEN [bot EXCEPT !.current_topic = inferred_topic,
                        !.topic_iteration_count = 1]
       ELSE [bot EXCEPT !.topic_iteration_count = @ + 1]

\* Variant of forced_rotation: the limit is compared with > instead of >=.
forced_rotation_late(themes, bot, limit) ==
  IF bot.topic_iteration_count > limit
  THEN LET possible_new_topics ==
             {t \in Range(themes) : t # bot.current_topic}
           choices == IF possible_new_topics # {}
                      THEN possible_new_topics
                      ELSE {bot.current_topic}
       IN  {[bot EXCEPT !.current_topic = new_topic,
                        !.topic_iteration_count = 0] : new_topic \in choices}
  ELSE {bot}

\* Step 4: the limit check.  random.choice makes the outcome a set.
forced_rotation(themes, bot, limit) ==
  IF bot.topic_iteration_count >= limit
  THEN LET possible_new_topics ==
             {t \in Range(themes) : t # bot.current_topic}
           choices == IF possible_new_topics # {}
                      THEN possible_new_topics
                      ELSE {bot.current_topic}
       IN  {[bot EXCEPT !.current_topic = new_topic,
                        !.topic_iteration_count = 0] : new_topic \in choices}
  ELSE {bot}

(***************************************************************************)
(* Configuration values the model ranges over.  Probabilities are in       *)
(* tenths: REPLY_CHANCE 0.3 is 3, a sample of random.random() is 0..9.     *)
(***************************************************************************)
ReplyChances == {0, 3, 10}
Samples == {0, 3, 9}
IterationLimits == 1..MaxLimit
PersonaNames == <<"Bitwit", "Veritas", "Tertius", "Quartus">>

(***************************************************************************)
(* The generative service.  One call of model.generate_content either      *)
(* answers with a text or raises (failed).                                 *)
(***************************************************************************)
Answer(text) == [failed |-> FALSE, text |-> text]
ServiceError == [failed |-> TRUE, text |-> <<>>]

\* A text that asks for an image: "bitcoin IMAGE PROMPT: a coin"
TextTagged ==
  TextBitcoin \o <<" ", "I", "M", "A", "G", "E", " ", "P", "R", "O", "M", "P",
                   "T", ":", " ", "a", " ", "c", "o", "i", "n">>

\* The service answers every call, with plain text.
HealthyService == {Answer(text) : text \in Texts}

\* The service may also fail, or answer with a tagged text.
FaultyService == {Answer(TextHello), Answer(TextTagged), ServiceError}

\* Variant of generate_text_with_llm: the error of the service is raised.
generate_text_with_llm_raise(out) ==
  [raise |-> out.failed, text |-> out.text]

\* GeminiClient.generate_text_with_llm without mocks: response.text, or the
\* placeholder when the call raised; it never raises itself.
generate_text_with_llm(out) ==
  [raise |-> FALSE,
   text |-> IF out.failed THEN ErrorPlaceholder ELSE out.text]
PersonaDirs == {SubSeq(PersonaNames, 1, n) : n \in 0..MaxRoster}

(***************************************************************************)
(* Telegram settings and inbound webhook payloads.                         *)
(***************************************************************************)
\* Bots whose TELEGRAM_<NAME>_USERNAME and TELEGRAM_<NAME>_TOKEN keys exist
\* in ConfigManager._config; the value is os.getenv(...), None when unset.
ConfiguredNames == {"Bitwit", "Veritas"}

\* bot.name as text
Chars(name) ==
  CASE name = "Bitwit" -> <<"B", "i", "t", "w", "i", "t">>
    [] name = "Veritas" -> <<"V", "e", "r", "i", "t", "a", "s">>
    [] name = "Tertius" -> <<"T", "e", "r", "t", "i", "u", "s">>
    [] name = "Quartus" -> <<"Q", "u", "a", "r", "t", "u", "s">>

\* A str-or-None value: is_none, or the text s.
NoneValue == [is_none |-> TRUE, s |-> <<>>]
Str(s) == [is_none |-> FALSE, s |-> s]

\* The handle registered for a bot when its key is set: "@Name".
Handle(name) == <<"@">> \o Chars(name)

TelegramConfigs ==
  [username : {f \in [ConfiguredNames -> {NoneValue} \cup
                                         {Str(Handle(n)) : n \in ConfiguredNames}] :
                 \A n \in ConfiguredNames : f[n] \in {NoneValue, Str(Handle(n))}},
   token : [ConfiguredNames -> BOOLEAN]]

\* No TELEGRAM_* variable set in the environment.
UnsetTelegramConfig ==
  [username |-> [n \in ConfiguredNames |-> NoneValue],
   token |-> [n \in ConfiguredNames |-> FALSE]]

\* self.config.get(f"TELEGRAM_{bot.name.upper()}_USERNAME", ''): the default
\* applies only when the key is missing from _config.
get_username(cfg, name) ==
  IF name \in ConfiguredNames THEN cfg.username[name] ELSE Str(<<>>)

\* self.config.get(f"TELEGRAM_{bot.name.upper()}_TOKEN"): TRUE iff truthy.
get_token(cfg, name) ==
  IF name \in ConfiguredNames THEN cfg.token[name] ELSE FALSE

\* Python: s.replace(old, ''), left to right, non-overlapping.
RECURSIVE remove_all(_, _)
remove_all(s, old) ==
  IF old = <<>> \/ Len(s) < Len(old) THEN s
  ELSE IF SubSeq(s, 1, Len(old)) = old
       THEN remove_all(SubSeq(s, Len(old) + 1, Len(s)), old)
       ELSE <<Head(s)>> \o remove_all(Tail(s), old)

\* The whitespace characters of the texts modelled.
Whitespace == {" ", "\n", "\t"}

\* Python: s.strip()
RECURSIVE strip(_)
strip(s) ==
  IF s = <<>> THEN s
  ELSE IF Head(s) \in Whitespace THEN strip(Tail(s))
  ELSE IF s[Len(s)] \in Whitespace THEN strip(SubSeq(s, 1, Len(s) - 1))
  ELSE s

(***************************************************************************)
(* The split of a generation output into text and image prompt, as         *)
(* _generate_post and handle_telegram_message do it.                       *)
(***************************************************************************)
\* "IMAGE PROMPT:"
image_prompt_tag ==
  <<"I", "M", "A", "G", "E", " ", "P", "R", "O", "M", "P", "T", ":">>

\* Python: s.find(sub) + 1, so 0 when sub does not occur in s.
first_index(sub, s) ==
  IF Contains(sub, s)
  THEN CHOOSE i \in 1..(Len(s) - Len(sub) + 1) :
         /\ SubSeq(s, i, i + Len(sub) - 1) = sub
         /\ \A j \in 1..(i - 1) : SubSeq(s, j, j + Len(sub) - 1) # sub
  ELSE 0

\* _generate_post: llm_response.split("IMAGE PROMPT:", 1) when the tag is in
\* the response; else the response as it is and no image prompt.
split_post(llm_response) ==
  LET i == first_index(image_prompt_tag, llm_response)
  IN  IF i = 0
      THEN [text_content |-> llm_response, image_prompt |-> NoneValue]
      ELSE [text_content |-> strip(SubSeq(llm_response, 1, i - 1)),
            image_prompt |->
              Str(strip(SubSeq(llm_response, i + Len(image_prompt_tag),
                               Len(llm_response))))]

\* handle_telegram_message: gemini_response.split(image_prompt_tag), of
\* which parts[0] and parts[1] are taken; parts[1] ends at the next tag.
split_reply(gemini_response) ==
  LET i == first_index(image_prompt_tag, gemini_response)
      rest == SubSeq(gemini_response, i + Len(image_prompt_tag),
                     Len(gemini_response))
      j == first_index(image_prompt_tag, rest)
  IN  IF i = 0
      THEN [text_content |-> gemini_response, image_prompt |-> NoneValue]
      ELSE [text_content |-> strip(SubSeq(gemini_response, 1, i - 1)),
            image_prompt |->
              Str(strip(IF j = 0 THEN rest ELSE SubSeq(rest, 1, j - 1)))]

\* Generation outputs handed to the split (bounded input set): a lead, a
\* marker as the model may write it, and a tail; or no marker at all.
SplitLeads == {<<>>, <<"H", "i", " ">>, <<"H", "i", "\n">>}
SplitMarkers ==
  {image_prompt_tag,
   <<"I", "M", "A", "G", "E", " ", "P", "R", "O", "M", "P", "T">>,
   <<"i", "m", "a", "g", "e", " ", "p", "r", "o", "m", "p", "t", ":">>,
   <<"I", "m", "a", "g", "e", " ", "P", "r", "o", "m", "p", "t", ":",
     " ">>}
SplitTails ==
  {<<>>, <<" ", "a", " ", "c", "a", "t">>,
   <<"a", " ", "c", "a", "t", " ">> \o image_prompt_tag \o <<" ", "d", "o", "g">>}
SplitInputs ==
  {lead \o marker \o tail :
     lead \in SplitLeads, marker \in SplitMarkers, tail \in SplitTails}
  \cup {<<>>, TextHello, <<" ">> \o TextHello \o <<" ">>}

\* split_post tabulated over the texts a posting cycle can receive: a
\* constant, computed once.
split_post_for ==
  [llm_response \in Texts \cup {ErrorPlaceholder, TextTagged} |->
     split_post(llm_response)]

\* `if image_prompt:` of _generate_post: the number of calls of
\* _generate_image_with_llm for one post.
image_calls(parts) ==
  IF ~parts.image_prompt.is_none /\ parts.image_prompt.s # <<>> THEN 1 ELSE 0

\* Inbound texts (bounded input set); <<>> also stands for a missing text.
TextMentionHandle ==
  <<"@", "b", "i", "t", "w", "i", "t", " ", "h", "e", "l", "l", "o", " ",
    "t", "h", "e", "r", "e">>
TextMentionName == <<"H", "i", " ", "V", "e", "r", "i", "t", "a", "s">>
TextMentionBoth ==
  <<"@", "V", "e", "r", "i", "t", "a", "s", " ", "a", "n", "d", " ",
    "B", "i", "t", "w", "i", "t">>
InboundTexts ==
  {<<>>, TextHello, TextMentionHandle, TextMentionName, TextMentionBoth}

\* A message object: chat kind ("absent" when the payload has no chat),
\* sender kind ("absent" when it has no from), the roster position of the
\* agent whose account sent it (0 for anyone else) and the text.
NoMessage == [chat |-> "absent", from |-> "absent", sender |-> 0, text |-> <<>>]

Messages ==
  {[chat |-> "absent", from |-> "human", sender |-> 0, text |-> TextHello]}
  \cup {[chat |-> c, from |-> "absent", sender |-> 0, text |-> TextHello] :
          c \in {"private", "channel"}}
  \cup [chat : {"private", "group", "channel"}, from : {"human"},
        sender : {0}, text : InboundTexts]
  \cup [chat : {"group", "supergroup"}, from : {"bot"},
        sender : 0..MaxRoster, text : {<<>>, TextHello, TextMentionName}]

\* request.json: an empty body, or an update carrying at most one of
\* message, channel_post and edited_channel_post.
EmptyData == [empty |-> TRUE, message |-> NoMessage,
              channel_post |-> NoMessage, edited_channel_post |-> NoMessage]
NoObjectData == [EmptyData EXCEPT !.empty = FALSE]

Payloads ==
  {EmptyData, NoObjectData}
  \cup {[NoObjectData EXCEPT !.message = m] : m \in Messages}
  \cup {[NoObjectData EXCEPT !.channel_post = m] :
          m \in {x \in Messages : x.chat = "channel"}}
  \cup {[NoObjectData EXCEPT !.edited_channel_post = m] :
          m \in {x \in Messages : x.chat = "channel" /\ x.text = TextHello}}

(***************************************************************************)
(* State.                                                                  *)
(***************************************************************************)
VARIABLES
  personalities_dir_exists,  \* os.path.exists(BOT_PERSONALITIES_DIR)
  persona_files,             \* names from os.listdir(BOT_PERSONALITIES_DIR)
  bitwit_app_instance,       \* TRUE iff the global instance is not None
  active_bots,               \* the roster: in-memory Bot objects
  current_posting_bot_index, \* the cursor, zero-based
  topic_iteration_limit,     \* TOPIC_ITERATION_LIMIT
  reply_chance,              \* REPLY_CHANCE, in tenths
  llm_outputs,               \* outcomes the generative service may give
  db_bots,                   \* table bots (row i has id i)
  posts,                     \* table posts (row i has id i)
  run_lock,                  \* TRUE iff run_lock is held
  threads,                   \* background threads started by run_bitwit
  responses,                 \* count and status of each run_bitwit request
  \* history variables, read by the properties only
  cycle_no,                  \* number of run() calls begun
  post_info,                 \* post_info[i]: cycle and phase that recorded post i
  hist,                      \* the completed cycles, in order
  clean,                     \* FALSE once a cycle has raised
  last_evolve,               \* trace of the last _manage_topic_evolution
  last_run,                  \* poster, sample and replier of the last cycle
  n_update_bot,              \* number of committed update_bot calls
  failures,                  \* number of persistence errors injected
  gen_error,                 \* trace of the last failed generation
  cycle_calls,               \* calls made by the last cycle begun
  \* the inbound path
  telegram_config,           \* the TELEGRAM_<NAME>_USERNAME / _TOKEN settings
  webhook_responses,         \* status of each POST /telegram-webhook
  inbound,                   \* handler threads started by telegram_webhook
  \* single applications of the text functions
  inference,                 \* one call of _infer_topic_from_text
  split,                     \* one split of a generation output
  prompt                     \* one prompt built by _generate_post

vars == <<personalities_dir_exists, persona_files, bitwit_app_instance,
          active_bots, current_posting_bot_index, topic_iteration_limit,
          reply_chance, llm_outputs,
          db_bots, posts, run_lock, threads, responses,
          cycle_no, post_info, hist, clean, last_evolve, last_run,
          n_update_bot, failures, gen_error, cycle_calls,
          telegram_config, webhook_responses, inbound,
          inference, split, prompt>>

inboundVars == <<telegram_config, webhook_responses, inbound>>

textVars == <<inference, split, prompt>>

configVars == <<personalities_dir_exists, persona_files,
               topic_iteration_limit, reply_chance, llm_outputs>>

appVars == <<configVars, bitwit_app_instance, active_bots,
             current_posting_bot_index>>

ghostVars == <<cycle_no, post_info, hist, clean, last_evolve, last_run,
               n_update_bot, failures, gen_error, cycle_calls>>

(***************************************************************************)
(* _load_all_bots: one Bot per persona file, fetched from the table or     *)
(* created with a random initial topic.                                    *)
(***************************************************************************)
\* Variant of InitialTopics: the journey theme is used as the initial topic.
InitialTopics_journey == {"General AI Exploration"}

\* random.choice(self.BITWIT_CORE_THEMES), bounded by MaxInitTopics
InitialTopics ==
  {BITWIT_CORE_THEMES[i] : i \in 1..MaxInitTopics} \cap Range(BITWIT_CORE_THEMES)

RECURSIVE load_all_bots(_, _, _)
load_all_bots(files, db, bots) ==
  IF files = <<>> THEN {[db_bots |-> db, active_bots |-> bots]}
  ELSE LET name == Head(files)
           found == {j \in 1..Len(db) : db[j].name = name}
       IN  IF found # {}
           THEN load_all_bots(Tail(files), db,
                              Append(bots, db[CHOOSE j \in found : TRUE]))
           ELSE UNION {
                  LET bot == [id |-> Len(db) + 1,
                              name |-> name,
                              current_topic |-> t,
                              topic_iteration_count |-> 0]
                  IN  load_all_bots(Tail(files), Append(db, bot),
                                    Append(bots, bot))
                  : t \in InitialTopics}

\* Variant of initialize_ok: the orchestrator is built whatever was found.
initialize_ok_lenient(exists, files) == TRUE

\* BitWitCoreApplication(config) raises FileNotFoundError when the
\* personalities directory is missing and RuntimeError when no bot could be
\* loaded from it; initialize_bitwit_app then leaves the instance None.
initialize_ok(exists, files) == exists /\ Len(files) > 0

NoPost == [id |-> 0, bot_id |-> 0, bot_name |-> None]
NoThread == [pc |-> "unborn", left |-> 0, last_post |-> NoPost, replying_bot |-> 0]
NoEvolve == [bot |-> 0, inferred |-> None, limit |-> 0,
             before |-> [topic |-> None, count |-> 0],
             mid |-> [topic |-> None, count |-> 0],
             after |-> [topic |-> None, count |-> 0]]
NoRun == [cycle |-> 0, poster |-> 0, sample |-> -1, replier |-> 0]
NoGenError == [cycle |-> 0, reply |-> FALSE, llm_response |-> <<>>,
               post |-> 0, tweet_text |-> <<>>, inferred |-> None,
               before |-> [topic |-> None, count |-> 0],
               mid |-> [topic |-> None, count |-> 0],
               poster |-> 0, cursor |-> [before |-> 0, after |-> 0],
               raised |-> "none"]
NoCalls == [cycle |-> 0, generate_text |-> 0, generate_image |-> 0,
            add_post |-> 0, update_bot |-> 0]
NoInference == [pc |-> "idle", text |-> <<>>, scores |-> <<>>,
                inferred_topic |-> None]
NoSplit == [pc |-> "idle", site |-> None, llm_response |-> <<>>,
            text_content |-> <<>>, image_prompt |-> NoneValue]

NoPrompt == [pc |-> "idle", bot |-> 0, reply_to_post |-> NoPost,
             parts |-> <<>>, topic |-> None, discussed |-> 0]

\* No request made, nothing recorded, no thread started.
InitIdle ==
  /\ posts = <<>>
  /\ run_lock = FALSE
  /\ threads = [t \in 1..MaxRequests |-> NoThread]
  /\ responses = <<>>
  /\ cycle_no = 0
  /\ post_info = <<>>
  /\ hist = <<>>
  /\ clean = TRUE
  /\ last_evolve = NoEvolve
  /\ last_run = NoRun
  /\ n_update_bot = 0
  /\ failures = 0
  /\ gen_error = NoGenError
  /\ cycle_calls = NoCalls
  /\ webhook_responses = <<>>
  /\ inbound = <<>>

\* BitWitCoreApplication(config) at start-up, over the configurations.
InitRoster ==
  /\ personalities_dir_exists \in BOOLEAN
  /\ persona_files \in (IF personalities_dir_exists THEN PersonaDirs
                        ELSE {<<>>})
  /\ topic_iteration_limit \in IterationLimits
  /\ reply_chance \in ReplyChances
  /\ bitwit_app_instance =
       initialize_ok(personalities_dir_exists, persona_files)
  /\ \E r \in load_all_bots(persona_files, <<>>, <<>>) :
       /\ db_bots = r.db_bots
       /\ active_bots = r.active_bots
  /\ current_posting_bot_index = 0
  /\ InitIdle

InitRun ==
  /\ InitRoster
  /\ llm_outputs = HealthyService
  /\ inference = NoInference
  /\ split = NoSplit
  /\ prompt = NoPrompt

\* The posting engine, the Telegram variables being unset.
Init == InitRun /\ telegram_config = UnsetTelegramConfig

\* The inbound path, over the Telegram settings.
InitInbound ==
  /\ InitRun
  /\ topic_iteration_limit = MaxLimit
  /\ telegram_config \in TelegramConfigs

(***************************************************************************)
(* Helpers of run() and _generate_post.                                    *)
(***************************************************************************)
\* Variant of try_acquire: the gate is never checked.
try_acquire_always(lock) == TRUE

\* run_lock.acquire(blocking=False): succeeds iff the lock is free.
try_acquire(lock) == ~lock

\* Variant of next_index: the cursor is not wrapped.
next_index_nowrap(idx, n) == idx + 1

\* Variant of next_index: the cursor skips an agent.
next_index_skip(idx, n) == (idx + 2) % n

\* (self.current_posting_bot_index + 1) % len(self.active_bots)
next_index(idx, n) == (idx + 1) % n

\* Variant of reply_triggered: the sample is compared with <=.
reply_triggered_le(last_post, n, sample, chance) ==
  /\ last_post # NoPost
  /\ n > 1
  /\ sample <= chance

\* last_post and len(self.active_bots) > 1 and random.random() < self.reply_chance
reply_triggered(last_post, n, sample, chance) ==
  /\ last_post # NoPost
  /\ n > 1
  /\ sample < chance

\* [b for b in self.active_bots if b.id != posting_bot.id], as roster positions
other_bots(bots, posting_bot) ==
  {i \in 1..Len(bots) : bots[i].id # posting_bot.id}

\* Variant of new_post: a reply names its own author as the target's author.
new_post_self(id, bot, reply_to_post) ==
  [id |-> id,
   bot_id |-> bot.id,
   in_reply_to_tweet_id |->
     IF reply_to_post # NoPost THEN reply_to_post.id ELSE 0,
   in_reply_to_author_name |->
     IF reply_to_post # NoPost THEN bot.name ELSE None]

\* Post(bot_id=..., in_reply_to_tweet_id=..., in_reply_to_author_name=...)
\* with the id the table assigns on insert.
new_post(id, bot, reply_to_post) ==
  [id |-> id,
   bot_id |-> bot.id,
   in_reply_to_tweet_id |->
     IF reply_to_post # NoPost THEN reply_to_post.id ELSE 0,
   in_reply_to_author_name |->
     IF reply_to_post # NoPost THEN reply_to_post.bot_name ELSE None]

\* Variant of manages_topic: replies evolve the topic state too.
manages_topic_always(reply_to_post) == TRUE

\* `if not reply_to_post:` guards the call of _manage_topic_evolution.
manages_topic(reply_to_post) == reply_to_post = NoPost

\* Variant of add_post: the row is merged over the last one of the table.
add_post_merge(rows, post) ==
  IF rows = <<>> THEN <<post>> ELSE [rows EXCEPT ![Len(rows)] = post]

\* DBManager.add_post: session.add and commit insert one row.
add_post(rows, post) == Append(rows, post)

\* DBManager.add_post: the row as returned, with Post.bot eagerly loaded.
loaded_post(db, post) ==
  [id |-> post.id, bot_id |-> post.bot_id, bot_name |-> db[post.bot_id].name]

\* DBManager.update_bot: session.merge by primary key.
update_bot(db, bot) == [db EXCEPT ![bot.id] = bot]

TopicState(bot) ==
  [topic |-> bot.current_topic, count |-> bot.topic_iteration_count]

\* Variant of after_run: a finished reply phase is entered again.
after_run_chain(th) ==
  IF th.pc = "reply" THEN th
  ELSE IF th.left > 1
  THEN [pc |-> "primary", left |-> th.left - 1, last_post |-> NoPost,
        replying_bot |-> 0]
  ELSE [pc |-> "done", left |-> 0, last_post |-> NoPost, replying_bot |-> 0]

\* The for-loop of run_in_thread after one run() has returned.
after_run(th) ==
  IF th.left > 1
  THEN [pc |-> "primary", left |-> th.left - 1, last_post |-> NoPost,
        replying_bot |-> 0]
  ELSE [pc |-> "done", left |-> 0, last_post |-> NoPost, replying_bot |-> 0]

\* Variant of after_raise: the error is logged inside the cycle and the
\* batch goes on as after a completed run.
after_raise_swallow(th) ==
  IF th.left > 1
  THEN [pc |-> "primary", left |-> th.left - 1, last_post |-> NoPost,
        replying_bot |-> 0]
  ELSE [pc |-> "done", left |-> 0, last_post |-> NoPost, replying_bot |-> 0]

\* except / finally of run_in_thread.
after_raise(th) ==
  [pc |-> "done", left |-> 0, last_post |-> NoPost, replying_bot |-> 0]

\* Outcomes of one persistence call: TRUE, or FALSE (SQLAlchemyError raised)
\* while the failure budget lasts.
MayFail == IF failures < MaxFailures THEN BOOLEAN ELSE {TRUE}

Active(t) == threads[t].pc \in {"primary", "reply"}

\* jsonify({"status": ...}) of run_bitwit, appended to the log of responses.
respond(count, status) ==
  Append(responses, [count |-> count, status |-> status])

(***************************************************************************)
(* POST /api/run_bitwit                                                    *)
(***************************************************************************)
run_bitwit(count) ==
  /\ Len(responses) < MaxRequests
  /\ LET req == Len(responses) + 1
         started == [pc |-> "primary", left |-> count, last_post |-> NoPost,
                     replying_bot |-> 0]
     IN
     IF count < 1
     THEN /\ responses' = respond(count, "invalid_count")
          /\ UNCHANGED <<appVars, db_bots, posts, run_lock, threads, ghostVars>>
     ELSE IF try_acquire(run_lock)
     THEN IF ~bitwit_app_instance
          THEN IF initialize_ok(personalities_dir_exists, persona_files)
               THEN \E r \in load_all_bots(persona_files, db_bots, <<>>) :
                      /\ bitwit_app_instance' = TRUE
                      /\ active_bots' = r.active_bots
                      /\ db_bots' = r.db_bots
                      /\ current_posting_bot_index' = 0
                      /\ run_lock' = TRUE
                      /\ threads' = [threads EXCEPT ![req] = started]
                      /\ responses' = respond(count, "success")
                      /\ hist' = <<>>
                      /\ clean' = TRUE
                      /\ UNCHANGED <<configVars, posts, cycle_no, post_info,
                                     last_evolve, last_run, n_update_bot,
                                     failures, gen_error, cycle_calls>>
               ELSE \* return 500 inside the try: the lock stays held
                    /\ run_lock' = TRUE
                    /\ responses' = respond(count, "init_failed")
                    /\ UNCHANGED <<appVars, db_bots, posts, threads, ghostVars>>
          ELSE /\ run_lock' = TRUE
               /\ threads' = [threads EXCEPT ![req] = started]
               /\ responses' = respond(count, "success")
               /\ UNCHANGED <<appVars, db_bots, posts, ghostVars>>
     ELSE /\ responses' = respond(count, "busy")
          /\ UNCHANGED <<appVars, db_bots, posts, run_lock, threads, ghostVars>>
  /\ UNCHANGED <<inboundVars, textVars>>

(***************************************************************************)
(* run(), primary phase: _generate_post(posting_bot), the cursor advance   *)
(* and the reply decision.                                                 *)
(***************************************************************************)
\* run() returns at once on an empty roster; the constructor raises on an
\* empty roster, so no thread ever runs with one.
run_primary(t) ==
  /\ threads[t].pc = "primary"
  /\ IF Len(active_bots) = 0
     THEN /\ threads' = [threads EXCEPT ![t] = after_run(@)]
          /\ run_lock' = IF threads[t].left > 1 THEN run_lock ELSE FALSE
          /\ UNCHANGED <<appVars, db_bots, posts, responses, ghostVars>>
     ELSE
     /\ cycle_no' = cycle_no + 1
     /\ \E out \in llm_outputs, add_ok \in MayFail, update_ok \in MayFail,
           sample \in Samples :
       LET idx == current_posting_bot_index
           n == Len(active_bots)
           posting_bot == active_bots[idx + 1]
           llm == generate_text_with_llm(out)
           parts == split_post_for[llm.text]
           text == parts.text_content
           row == new_post(Len(posts) + 1, posting_bot, NoPost)
           last_post == loaded_post(db_bots, row)
           inferred == inferred_for[text][
                         active_bots[current_posting_bot_index + 1].current_topic]
           mid == evolve_steps(posting_bot, inferred)
       IN
       /\ IF llm.raise
          THEN \* the service error leaves _generate_post and run()
               /\ threads' = [threads EXCEPT ![t] = after_raise(@)]
               /\ run_lock' = FALSE
               /\ clean' = FALSE
               /\ cycle_calls' = [cycle |-> cycle_no + 1, generate_text |-> 1,
                                  generate_image |-> 0, add_post |-> 0,
                                  update_bot |-> 0]
               /\ UNCHANGED <<appVars, db_bots, posts, responses, post_info,
                              hist, last_evolve, last_run, n_update_bot,
                              failures>>
          ELSE IF ~add_ok
          THEN \* add_post raises: nothing recorded
               /\ threads' = [threads EXCEPT ![t] = after_raise(@)]
               /\ run_lock' = FALSE
               /\ clean' = FALSE /\ failures' = failures + 1
               /\ cycle_calls' = [cycle |-> cycle_no + 1, generate_text |-> 1,
                                  generate_image |-> image_calls(parts),
                                  add_post |-> 1, update_bot |-> 0]
               /\ UNCHANGED <<appVars, db_bots, posts, responses, post_info,
                              hist, last_evolve, last_run, n_update_bot>>
          ELSE
            /\ posts' = add_post(posts, row)
            /\ post_info' = Append(post_info,
                                   [cycle |-> cycle_no + 1, reply |-> FALSE])
            /\ cycle_calls' = [cycle |-> cycle_no + 1, generate_text |-> 1,
                               generate_image |-> image_calls(parts),
                               add_post |-> 1,
                               update_bot |-> IF manages_topic(NoPost) THEN 1
                                              ELSE 0]
            /\ IF manages_topic(NoPost)
               THEN \E bot \in forced_rotation(BITWIT_CORE_THEMES, mid,
                                               topic_iteration_limit) :
                      /\ active_bots' = [active_bots EXCEPT ![idx + 1] = bot]
                      /\ last_evolve' = [bot |-> idx + 1, inferred |-> inferred,
                                         limit |-> topic_iteration_limit,
                                         before |-> TopicState(posting_bot),
                                         mid |-> TopicState(mid),
                                         after |-> TopicState(bot)]
                      /\ IF update_ok
                         THEN /\ db_bots' = update_bot(db_bots, bot)
                              /\ n_update_bot' = n_update_bot + 1
                         ELSE UNCHANGED <<db_bots, n_update_bot>>
               ELSE /\ update_ok
                    /\ UNCHANGED <<active_bots, last_evolve, db_bots,
                                   n_update_bot>>
            /\ IF ~update_ok
               THEN \* update_bot raises out of run()
                    /\ threads' = [threads EXCEPT ![t] = after_raise(@)]
                    /\ run_lock' = FALSE
                    /\ clean' = FALSE /\ failures' = failures + 1
                    /\ UNCHANGED <<current_posting_bot_index, hist, last_run>>
               ELSE
                 /\ current_posting_bot_index' = next_index(idx, n)
                 /\ IF reply_triggered(last_post, n, sample, reply_chance)
                       /\ other_bots(active_bots, posting_bot) # {}
                    THEN \E r \in other_bots(active_bots, posting_bot) :
                           /\ threads' = [threads EXCEPT ![t] =
                                            [@ EXCEPT !.pc = "reply",
                                                      !.last_post = last_post,
                                                      !.replying_bot = r]]
                           /\ last_run' = [cycle |-> cycle_no + 1,
                                           poster |-> idx + 1,
                                           sample |-> sample, replier |-> r]
                           /\ UNCHANGED <<run_lock, hist>>
                    ELSE /\ threads' = [threads EXCEPT ![t] = after_run(@)]
                         /\ run_lock' = IF threads[t].left > 1 THEN run_lock
                                        ELSE FALSE
                         /\ last_run' = [cycle |-> cycle_no + 1,
                                         poster |-> idx + 1,
                                         sample |-> IF n > 1 THEN sample ELSE -1,
                                         replier |-> 0]
                         /\ hist' = Append(hist, [cycle |-> cycle_no + 1,
                                                  poster |-> posting_bot.name])
                 /\ clean' = clean /\ failures' = failures
            /\ UNCHANGED <<configVars, bitwit_app_instance, responses>>
       /\ gen_error' =
            IF out.failed
            THEN [cycle |-> cycle_no + 1, reply |-> FALSE,
                  llm_response |-> llm.text,
                  post |-> IF Len(posts') > Len(posts) THEN Len(posts') ELSE 0,
                  tweet_text |-> IF llm.raise THEN <<>> ELSE text,
                  inferred |-> IF llm.raise THEN None ELSE inferred,
                  before |-> TopicState(posting_bot),
                  mid |-> IF llm.raise THEN TopicState(posting_bot)
                          ELSE TopicState(mid),
                  poster |-> idx + 1,
                  cursor |-> [before |-> idx,
                              after |-> current_posting_bot_index'],
                  raised |-> IF llm.raise THEN "generation"
                             ELSE IF failures' > failures THEN "persistence"
                             ELSE "none"]
            ELSE gen_error
  /\ UNCHANGED <<inboundVars, textVars>>

(***************************************************************************)
(* run(), reply phase: _generate_post(replying_bot, reply_to_post).        *)
(***************************************************************************)
run_reply(t) ==
  /\ threads[t].pc = "reply"
  /\ \E add_ok \in MayFail, update_ok \in MayFail, out \in llm_outputs :
       LET replying_bot == active_bots[threads[t].replying_bot]
           reply_to_post == threads[t].last_post
           llm == generate_text_with_llm(out)
           parts == split_post_for[llm.text]
           text == parts.text_content
           row == new_post(Len(posts) + 1, replying_bot, reply_to_post)
           r == threads[t].replying_bot
           inferred == inferred_for[text][
                         active_bots[current_posting_bot_index + 1].current_topic]
           mid == evolve_steps(replying_bot, inferred)
       IN
       /\ IF llm.raise
          THEN /\ threads' = [threads EXCEPT ![t] = after_raise(@)]
               /\ run_lock' = FALSE
               /\ clean' = FALSE
               /\ cycle_calls' = [cycle_calls EXCEPT !.generate_text = @ + 1]
               /\ UNCHANGED <<appVars, db_bots, posts, responses, cycle_no,
                              post_info, hist, last_evolve, last_run,
                              n_update_bot, failures>>
          ELSE IF ~add_ok
          THEN /\ threads' = [threads EXCEPT ![t] = after_raise(@)]
               /\ run_lock' = FALSE
               /\ clean' = FALSE /\ failures' = failures + 1
               /\ cycle_calls' =
                    [cycle_calls EXCEPT
                       !.generate_text = @ + 1,
                       !.generate_image = @ + image_calls(parts),
                       !.add_post = @ + 1]
               /\ UNCHANGED <<appVars, db_bots, posts, responses, cycle_no,
                              post_info, hist, last_evolve, last_run,
                              n_update_bot>>
          ELSE
            /\ posts' = add_post(posts, row)
            /\ post_info' = Append(post_info,
                                   [cycle |-> last_run.cycle, reply |-> TRUE])
            /\ cycle_calls' =
                 [cycle_calls EXCEPT
                    !.generate_text = @ + 1,
                    !.generate_image = @ + image_calls(parts),
                    !.add_post = @ + 1,
                    !.update_bot = @ + IF manages_topic(reply_to_post) THEN 1
                                       ELSE 0]
            /\ IF manages_topic(reply_to_post)
               THEN \E bot \in forced_rotation(BITWIT_CORE_THEMES, mid,
                                               topic_iteration_limit) :
                      /\ active_bots' = [active_bots EXCEPT ![r] = bot]
                      /\ last_evolve' = [bot |-> r, inferred |-> inferred,
                                         limit |-> topic_iteration_limit,
                                         before |-> TopicState(replying_bot),
                                         mid |-> TopicState(mid),
                                         after |-> TopicState(bot)]
                      /\ IF update_ok
                         THEN /\ db_bots' = update_bot(db_bots, bot)
                              /\ n_update_bot' = n_update_bot + 1
                         ELSE UNCHANGED <<db_bots, n_update_bot>>
               ELSE UNCHANGED <<active_bots, last_evolve, db_bots,
                                n_update_bot>>
            /\ IF manages_topic(reply_to_post) /\ ~update_ok
               THEN /\ threads' = [threads EXCEPT ![t] = after_raise(@)]
                    /\ run_lock' = FALSE
                    /\ clean' = FALSE /\ failures' = failures + 1
                    /\ UNCHANGED hist
               ELSE /\ threads' = [threads EXCEPT ![t] = after_run(@)]
                    /\ run_lock' = IF threads[t].left > 1 THEN run_lock
                                   ELSE FALSE
                    /\ hist' = Append(hist, [cycle |-> last_run.cycle,
                                             poster |-> reply_to_post.bot_name])
                    /\ clean' = clean /\ failures' = failures
            /\ UNCHANGED <<configVars, bitwit_app_instance,
                           current_posting_bot_index, responses, cycle_no,
                           last_run>>
       /\ gen_error' =
            IF out.failed
            THEN [cycle |-> last_run.cycle, reply |-> TRUE,
                  llm_response |-> llm.text,
                  post |-> IF Len(posts') > Len(posts) THEN Len(posts') ELSE 0,
                  tweet_text |-> IF llm.raise THEN <<>> ELSE text,
                  inferred |-> None,
                  before |-> TopicState(replying_bot),
                  mid |-> TopicState(replying_bot),
                  poster |-> r,
                  cursor |-> [before |-> current_posting_bot_index,
                              after |-> current_posting_bot_index'],
                  raised |-> IF llm.raise THEN "generation"
                             ELSE IF failures' > failures THEN "persistence"
                             ELSE "none"]
            ELSE gen_error
  /\ UNCHANGED <<inboundVars, textVars>>

(***************************************************************************)
(* handle_telegram_message.  The method body is four try/except statements *)
(* in sequence (blocks 1..4); blocks 1..3 are the same code, block 4       *)
(* differs in the responder it takes for a mention.                        *)
(***************************************************************************)
\* message['chat']['type'] in ['channel', 'group', 'supergroup']
is_channel_post(message) == message.chat \in {"channel", "group", "supergroup"}

\* message['from'].get('is_bot', False)
is_from_bot(message) == message.from = "bot"

\* The test of the mention loop for one bot; the username is lowered first.
mentions(text, username, name) ==
  \/ Contains(lower(username), lower(text))
  \/ Contains(<<" ">> \o lower(Chars(name)), lower(text))

\* text.lower().replace(bot_username, '').replace(f" {bot_name_lower}", '').strip()
clean_text(text, username, name) ==
  strip(remove_all(remove_all(lower(text), lower(username)),
                   <<" ">> \o lower(Chars(name))))

\* mentions and clean_text tabulated over the bounded inputs: constants,
\* computed once and not at every step.
Usernames == {<<>>} \cup {Handle(n) : n \in Range(PersonaNames)}

mentions_for ==
  [text \in InboundTexts |->
     [username \in Usernames |->
        [name \in Range(PersonaNames) |-> mentions(text, username, name)]]]

clean_text_for ==
  [text \in InboundTexts |->
     [username \in Usernames |->
        [name \in Range(PersonaNames) |-> clean_text(text, username, name)]]]

\* `for bot in self.active_bots:` up to the break: the first position that
\* matches ("match"), none ("none"), or the position whose username is None
\* and whose .lower() raises AttributeError ("raise").
RECURSIVE mention_scan(_, _, _, _)
mention_scan(bots, i, text, cfg) ==
  IF i > Len(bots) THEN [outcome |-> "none", bot |-> 0]
  ELSE LET bot_username == get_username(cfg, bots[i].name)
       IN  IF bot_username.is_none THEN [outcome |-> "raise", bot |-> i]
           ELSE IF mentions_for[text][bot_username.s][bots[i].name]
                THEN [outcome |-> "match", bot |-> i]
                ELSE mention_scan(bots, i + 1, text, cfg)

\* next((b for b in self.active_bots if b.name == name), None); 0 is None
first_named(bots, name) ==
  IF \E i \in 1..Len(bots) : bots[i].name = name
  THEN CHOOSE i \in 1..Len(bots) :
         /\ bots[i].name = name
         /\ \A j \in 1..(i - 1) : bots[j].name # name
  ELSE 0

\* next((b for b in self.active_bots if b.name != name), None); 0 is None
first_not_named(bots, name) ==
  IF \E i \in 1..Len(bots) : bots[i].name # name
  THEN CHOOSE i \in 1..Len(bots) :
         /\ bots[i].name # name
         /\ \A j \in 1..(i - 1) : bots[j].name = name
  ELSE 0

\* The responder taken for a mention of the bot at position i: the bot
\* itself in blocks 1..3; in block 4 Veritas for Bitwit, else Bitwit.
mention_responder(block, bots, i) ==
  IF block < 4 THEN i
  ELSE IF bots[i].name = "Bitwit" THEN first_named(bots, "Veritas")
       ELSE first_named(bots, "Bitwit")

\* The mapped columns of class Bot; reading any other attribute of a Bot
\* raises AttributeError.
BotColumns ==
  {"id", "name", "persona_summary", "personality_prompt",
   "personality_traits", "backstory", "motivations", "hashtag_keywords",
   "current_journey_theme", "last_event_summary", "conversation_summary",
   "knowledge_base", "current_goals", "current_mood", "allowed_moods",
   "current_topic", "topic_iteration_count", "twitter_account_id",
   "twitter_access_token", "twitter_access_token_secret",
   "telegram_chat_id", "is_active", "last_posted_at", "created_at",
   "updated_at", "posts", "conversation_segments"}

\* next((b for b in self.active_bots if b.telegram_id == str(sender_id)), None)
\* The roster is never empty, so b.telegram_id is read at least once.
sender_lookup(bots, message) ==
  IF "telegram_id" \notin BotColumns
  THEN [raise |-> TRUE, bot |-> 0]
  ELSE [raise |-> FALSE, bot |-> message.sender]

\* Variant of private_responder: the last bot loaded is the default.
private_responder_last(bots) == Len(bots)

\* responding_bot = self.active_bots[0], as a roster position
private_responder(bots) == 1

\* Variant of resolve_message: an update without a message object is read
\* as an empty private message.
resolve_message_default(data) ==
  IF data.message # NoMessage THEN data.message
  ELSE IF data.channel_post # NoMessage THEN data.channel_post
  ELSE IF data.edited_channel_post # NoMessage THEN data.edited_channel_post
  ELSE [chat |-> "private", from |-> "human", sender |-> 0, text |-> TextHello]

\* message = data.get('message') or channel_post or edited_channel_post
resolve_message(data) ==
  IF data.message # NoMessage THEN data.message
  ELSE IF data.channel_post # NoMessage THEN data.channel_post
  ELSE data.edited_channel_post

\* Lines 318-372 of one block: the routing decision.  status is "respond",
\* "decline" (the early return after the sample) or "raise"; responder 0 is
\* None; samples is the number of random.random() calls made.
route(block, message, bots, cfg, chance, sample, pick) ==
  LET text == message.text
      scan == mention_scan(bots, 1, text, cfg)
      raised(n) == [status |-> "raise", responder |-> 0,
                    cleaned_text |-> text, samples |-> n]
  IN  IF message.from = "absent" THEN raised(0)
      ELSE IF scan.outcome = "raise" THEN raised(0)
      ELSE IF scan.outcome = "match"
      THEN [status |-> "respond",
            responder |-> mention_responder(block, bots, scan.bot),
            cleaned_text |->
              clean_text_for[text][get_username(cfg, bots[scan.bot].name).s][
                bots[scan.bot].name],
            samples |-> 0]
      ELSE IF is_channel_post(message)
      THEN IF sample < chance
           THEN IF is_from_bot(message)
                THEN LET found == sender_lookup(bots, message)
                     IN  IF found.raise THEN raised(1)
                         ELSE IF found.bot = 0
                         THEN [status |-> "respond", responder |-> pick,
                               cleaned_text |-> text, samples |-> 1]
                         ELSE IF first_not_named(bots, bots[found.bot].name) = 0
                         THEN raised(1)  \* responding_bot.name in the log line
                         ELSE [status |-> "respond",
                               responder |->
                                 first_not_named(bots, bots[found.bot].name),
                               cleaned_text |-> text, samples |-> 1]
                ELSE [status |-> "respond", responder |-> pick,
                      cleaned_text |-> text, samples |-> 1]
           ELSE [status |-> "decline", responder |-> 0,
                 cleaned_text |-> text, samples |-> 1]
      ELSE [status |-> "respond", responder |-> private_responder(bots),
            cleaned_text |-> text, samples |-> 0]

\* One call made by a handler thread: a generation or a delivery.  For a
\* delivery, bot is the bot whose token is used.
Event(ev, block, bot, what) ==
  [ev |-> ev, block |-> block, bot |-> bot, what |-> what]

\* send_telegram_message(chat_id, text, bot_token): without bot_token the
\* TELEGRAM_BITWIT_TOKEN is used; without any token nothing is sent.
send_telegram_message(calls, cfg, block, token_of, what) ==
  LET token_to_use ==
        IF token_of # None /\ get_token(cfg, token_of) THEN token_of
        ELSE IF get_token(cfg, "Bitwit") THEN "Bitwit"
        ELSE None
  IN  IF token_to_use = None THEN calls
      ELSE Append(calls, Event("send_message", block, token_to_use, what))

\* send_telegram_photo(chat_id, image_path, caption, bot_token)
send_telegram_photo(calls, cfg, block, token_of, what) ==
  LET token_to_use ==
        IF token_of # None /\ get_token(cfg, token_of) THEN token_of
        ELSE IF get_token(cfg, "Bitwit") THEN "Bitwit"
        ELSE None
  IN  IF token_to_use = None THEN calls
      ELSE Append(calls, Event("send_photo", block, token_to_use, what))

NoRoute == [status |-> "none", responder |-> 0, cleaned_text |-> <<>>,
            samples |-> 0]

\* The try statement control falls into after block `block`; 0 is the end
\* of the method.
next_block(block) == IF block < 4 THEN block + 1 ELSE 0

\* One try/except statement of handle_telegram_message, run by thread th.
\* tagged: the generated text holds "IMAGE PROMPT:"; image_path: the image
\* generation returned a path.
run_block(th, bots, cfg, chance, sample, pick, tagged, image_path) ==
  LET block == th.block
      message == resolve_message(th.data)
      r == route(block, message, bots, cfg, chance, sample, pick)
      entry(exit, rr) ==
        [block |-> block, exit |-> exit, status |-> rr.status,
         responder |-> rr.responder, cleaned_text |-> rr.cleaned_text,
         samples |-> rr.samples,
         sample |-> IF rr.samples > 0 THEN sample ELSE -1]
      \* `return` inside the try
      returned(exit, rr, calls) ==
        [th EXCEPT !.pc = "returned", !.calls = calls,
                   !.chat_id_bound = (message # NoMessage),
                   !.outcomes = Append(@, entry(exit, rr))]
      \* the end of the try or of the except clause is reached
      fell(exit, rr, calls) ==
        [th EXCEPT !.pc = IF next_block(block) = 0 THEN "returned" ELSE "run",
                   !.block = IF next_block(block) = 0 THEN block
                             ELSE next_block(block),
                   !.calls = calls,
                   !.chat_id_bound = TRUE,
                   !.outcomes = Append(@, entry(exit, rr))]
      \* except Exception: the fallback message needs chat_id; reading it
      \* unbound raises UnboundLocalError out of the method
      excepted(rr, bound) ==
        IF ~bound
        THEN [th EXCEPT !.pc = "raised",
                        !.outcomes = Append(@, entry("raise_unbound", rr))]
        ELSE fell("raise", rr,
                  send_telegram_message(th.calls, cfg, block, "Bitwit",
                                        "fallback"))
  IN  IF message = NoMessage THEN returned("no_message", NoRoute, th.calls)
      ELSE IF message.chat = "absent" THEN excepted(NoRoute, th.chat_id_bound)
      ELSE IF r.status = "raise" THEN excepted(r, TRUE)
      ELSE IF r.status = "decline" THEN returned("decline", r, th.calls)
      ELSE IF message.text = <<>> THEN returned("no_text", r, th.calls)
      ELSE IF r.responder = 0 THEN excepted(r, TRUE)
      ELSE
        LET name == bots[r.responder].name
            generated ==
              Append(th.calls, Event("generate_text", block, name, "reply"))
        IN  IF ~get_token(cfg, name)
            THEN returned("no_token", r,
                          send_telegram_message(generated, cfg, block, None,
                                                "config_error"))
            ELSE IF tagged
            THEN LET imaged == Append(generated,
                                 Event("generate_image", block, name, "reply"))
                 IN  returned("image", r,
                              IF image_path
                              THEN send_telegram_photo(imaged, cfg, block,
                                                       name, "reply")
                              ELSE send_telegram_message(imaged, cfg, block,
                                                         name, "reply"))
            ELSE fell("text", r,
                      send_telegram_message(generated, cfg, block, name,
                                            "reply"))

\* A handler thread as started by telegram_webhook.
started_handler(data, gate) ==
  [data |-> data, pc |-> "run", block |-> 1, chat_id_bound |-> FALSE,
   calls |-> <<>>, outcomes |-> <<>>, gate |-> gate]

\* The agent a payload names as its sender is on the roster.
WellFormed(data) ==
  resolve_message(data).sender <= Len(active_bots)

(***************************************************************************)
(* POST /telegram-webhook                                                  *)
(***************************************************************************)
\* Variant of telegram_webhook: the endpoint goes through the run gate.
telegram_webhook_gated(data) ==
  /\ Len(webhook_responses) < MaxInbound
  /\ WellFormed(data)
  /\ IF data.empty
     THEN /\ webhook_responses' =
               Append(webhook_responses,
                      [status |-> "ok", message |-> "Empty request",
                       thread |-> 0, gate |-> run_lock])
          /\ UNCHANGED inbound
     ELSE IF run_lock
     THEN /\ webhook_responses' =
               Append(webhook_responses,
                      [status |-> "busy", message |-> "Busy", thread |-> 0,
                       gate |-> run_lock])
          /\ UNCHANGED inbound
     ELSE /\ inbound' = Append(inbound, started_handler(data, run_lock))
          /\ webhook_responses' =
               Append(webhook_responses,
                      [status |-> "ok", message |-> "Message received",
                       thread |-> Len(inbound) + 1, gate |-> run_lock])
  /\ UNCHANGED <<appVars, db_bots, posts, run_lock, threads, responses,
                 ghostVars, telegram_config, textVars>>

telegram_webhook(data) ==
  /\ Len(webhook_responses) < MaxInbound
  /\ WellFormed(data)
  /\ IF data.empty
     THEN /\ webhook_responses' =
               Append(webhook_responses,
                      [status |-> "ok", message |-> "Empty request",
                       thread |-> 0, gate |-> run_lock])
          /\ UNCHANGED inbound
     ELSE /\ inbound' = Append(inbound, started_handler(data, run_lock))
          /\ webhook_responses' =
               Append(webhook_responses,
                      [status |-> "ok", message |-> "Message received",
                       thread |-> Len(inbound) + 1, gate |-> run_lock])
  /\ UNCHANGED <<appVars, db_bots, posts, run_lock, threads, responses,
                 ghostVars, telegram_config, textVars>>

(***************************************************************************)
(* The thread of telegram_webhook: one try statement of                    *)
(* bitwit_app_instance.handle_telegram_message(data) per step.             *)
(***************************************************************************)
\* Variant of handle_telegram_message: the reply is produced through
\* _generate_post, which records it as a post of the responder.
handle_telegram_message_posting(h) ==
  /\ h \in 1..Len(inbound)
  /\ inbound[h].pc = "run"
  /\ IF ~bitwit_app_instance
     THEN /\ inbound' = [inbound EXCEPT ![h].pc = "no_instance"]
          /\ UNCHANGED posts
     ELSE \E sample \in Samples, pick \in 1..Len(active_bots),
             tagged \in BOOLEAN, image_path \in BOOLEAN :
            /\ inbound' = [inbound EXCEPT ![h] =
                             run_block(@, active_bots, telegram_config,
                                       reply_chance, sample, pick, tagged,
                                       image_path)]
            /\ posts' = add_post(posts, new_post(Len(posts) + 1,
                                                 active_bots[pick], NoPost))
  /\ UNCHANGED <<appVars, db_bots, run_lock, threads, responses,
                 ghostVars, telegram_config, webhook_responses, textVars>>

handle_telegram_message(h) ==
  /\ h \in 1..Len(inbound)
  /\ inbound[h].pc = "run"
  /\ IF ~bitwit_app_instance
     THEN \* None.handle_telegram_message: AttributeError in the thread
          inbound' = [inbound EXCEPT ![h].pc = "no_instance"]
     ELSE \E sample \in Samples, pick \in 1..Len(active_bots),
             tagged \in BOOLEAN, image_path \in BOOLEAN :
            inbound' = [inbound EXCEPT ![h] =
                          run_block(@, active_bots, telegram_config,
                                    reply_chance, sample, pick, tagged,
                                    image_path)]
  /\ UNCHANGED <<appVars, db_bots, posts, run_lock, threads, responses,
                 ghostVars, telegram_config, webhook_responses, textVars>>

Next ==
  \/ \E count \in 0..MaxCount : run_bitwit(count)
  \/ \E t \in 1..MaxRequests : run_primary(t)
  \/ \E t \in 1..MaxRequests : run_reply(t)

Spec == Init /\ [][Next]_vars

NextInbound ==
  \/ \E data \in Payloads : telegram_webhook(data)
  \/ \E h \in 1..MaxInbound : handle_telegram_message(h)

SpecInbound == InitInbound /\ [][NextInbound]_vars

(***************************************************************************)
(* Posting cycles and inbound handling side by side: a full roster with    *)
(* every Telegram setting made and REPLY_CHANCE 0.0, so that no cycle has  *)
(* a reply phase.                                                          *)
(***************************************************************************)
SetTelegramConfig ==
  [username |-> [n \in ConfiguredNames |-> Str(Handle(n))],
   token |-> [n \in ConfiguredNames |-> TRUE]]

ConcurrentPayloads ==
  {EmptyData,
   [NoObjectData EXCEPT !.message =
      [chat |-> "private", from |-> "human", sender |-> 0,
       text |-> TextHello]]}

InitConcurrent ==
  /\ InitRun
  /\ Len(persona_files) = MaxRoster
  /\ topic_iteration_limit = MaxLimit
  /\ reply_chance = 0
  /\ telegram_config = SetTelegramConfig

NextConcurrent ==
  \/ \E count \in 0..MaxCount : run_bitwit(count)
  \/ \E t \in 1..MaxRequests : run_primary(t)
  \/ \E data \in ConcurrentPayloads : telegram_webhook(data)
  \/ \E h \in 1..MaxInbound : handle_telegram_message(h)

SpecConcurrent == InitConcurrent /\ [][NextConcurrent]_vars

(***************************************************************************)
(* _infer_topic_from_text on its own: a roster of two whose agents hold    *)
(* any taxonomy topics, the cursor on either, and a text of InferTexts.    *)
(***************************************************************************)
InitInfer ==
  /\ personalities_dir_exists = TRUE
  /\ persona_files = SubSeq(PersonaNames, 1, 2)
  /\ llm_outputs = HealthyService
  /\ topic_iteration_limit = MaxLimit
  /\ reply_chance = 0
  /\ bitwit_app_instance = TRUE
  /\ \E topics \in [1..2 -> Range(BITWIT_CORE_THEMES)] :
       /\ active_bots = [i \in 1..2 |->
                          [id |-> i, name |-> PersonaNames[i],
                           current_topic |-> topics[i],
                           topic_iteration_count |-> 0]]
       /\ db_bots = active_bots
  /\ current_posting_bot_index \in 0..1
  /\ InitIdle
  /\ telegram_config = UnsetTelegramConfig
  /\ \E text \in InferTexts :
       inference = [NoInference EXCEPT !.pc = "called", !.text = text]
  /\ split = NoSplit
  /\ prompt = NoPrompt

\* self._infer_topic_from_text(generated_text)
call_infer_topic_from_text ==
  /\ inference.pc = "called"
  /\ inference' =
       [inference EXCEPT
          !.pc = "returned",
          !.scores = scores(inference.text),
          !.inferred_topic =
            infer_topic_from_text(
              inference.text,
              active_bots[current_posting_bot_index + 1].current_topic)]
  /\ UNCHANGED <<appVars, db_bots, posts, run_lock, threads, responses,
                 ghostVars, inboundVars, split, prompt>>

NextInfer == call_infer_topic_from_text

SpecInfer == InitInfer /\ [][NextInfer]_vars

(***************************************************************************)
(* The split on its own, at its two call sites: "post" in _generate_post   *)
(* and "reply" in handle_telegram_message.                                 *)
(***************************************************************************)
InitSplit ==
  /\ InitRoster
  /\ Len(persona_files) = 1
  /\ topic_iteration_limit = MaxLimit
  /\ reply_chance = 0
  /\ telegram_config = UnsetTelegramConfig
  /\ llm_outputs = HealthyService
  /\ inference = NoInference
  /\ prompt = NoPrompt
  /\ \E site \in {"post", "reply"}, llm_response \in SplitInputs :
       split = [NoSplit EXCEPT !.pc = "called", !.site = site,
                               !.llm_response = llm_response]

call_split ==
  /\ split.pc = "called"
  /\ LET r == IF split.site = "post" THEN split_post(split.llm_response)
              ELSE split_reply(split.llm_response)
     IN  split' = [split EXCEPT !.pc = "returned",
                                !.text_content = r.text_content,
                                !.image_prompt = r.image_prompt]
  /\ UNCHANGED <<appVars, db_bots, posts, run_lock, threads, responses,
                 ghostVars, inboundVars, inference, prompt>>

NextSplit == call_split

SpecSplit == InitSplit /\ [][NextSplit]_vars

(***************************************************************************)
(* The posting engine over a full roster with a text service that can      *)
(* fail.  run_in_thread is a running thread and every call of run()        *)
(* returns, so a started batch keeps taking its steps.                     *)
(***************************************************************************)
InitGeneration ==
  /\ InitRoster
  /\ Len(persona_files) = MaxRoster
  /\ topic_iteration_limit = MaxLimit
  /\ reply_chance = 3
  /\ telegram_config = UnsetTelegramConfig
  /\ llm_outputs = FaultyService
  /\ inference = NoInference
  /\ split = NoSplit
  /\ prompt = NoPrompt

SpecGeneration ==
  /\ InitGeneration
  /\ [][Next]_vars
  /\ \A t \in 1..MaxRequests :
       WF_vars(run_primary(t)) /\ WF_vars(run_reply(t))

(***************************************************************************)
(* The prompt of _generate_post on its own, for a post and for a reply,    *)
(* over the topics and iteration counts of a roster of two.  The prompt is *)
(* kept as the sequence of its parts, with the topic and the count that    *)
(* the topic injection names.                                              *)
(***************************************************************************)
\* Variant of suggests_shift: the suggestion is made from the limit on.
suggests_shift_at_limit(bot, limit) == bot.topic_iteration_count >= limit

\* bot.topic_iteration_count >= self.topic_iteration_limit - 1
suggests_shift(bot, limit) == bot.topic_iteration_count >= limit - 1

\* full_prompt as handed to _generate_text_with_llm
full_prompt(bot, limit, reply_to_post) ==
  LET base_prompt == <<"personality_prompt", "language_instruction">>
  IN  IF reply_to_post # NoPost
      THEN [parts |-> base_prompt \o <<"reply_context">>,
            topic |-> None, discussed |-> 0]
      ELSE IF suggests_shift(bot, limit)
      THEN [parts |-> base_prompt \o <<"current_topic_focus",
                                       "consider_shifting">>,
            topic |-> bot.current_topic,
            discussed |-> bot.topic_iteration_count]
      ELSE [parts |-> base_prompt \o <<"current_topic_focus">>,
            topic |-> bot.current_topic, discussed |-> 0]

InitPrompt ==
  /\ personalities_dir_exists = TRUE
  /\ persona_files = SubSeq(PersonaNames, 1, 2)
  /\ llm_outputs = HealthyService
  /\ topic_iteration_limit \in IterationLimits
  /\ reply_chance = 0
  /\ bitwit_app_instance = TRUE
  /\ \E topic \in Range(BITWIT_CORE_THEMES),
        counts \in [1..2 -> 0..MaxLimit] :
       /\ active_bots = [i \in 1..2 |->
                          [id |-> i, name |-> PersonaNames[i],
                           current_topic |-> topic,
                           topic_iteration_count |-> counts[i]]]
       /\ db_bots = active_bots
  /\ current_posting_bot_index = 0
  /\ InitIdle
  /\ telegram_config = UnsetTelegramConfig
  /\ inference = NoInference
  /\ split = NoSplit
  /\ \E bot \in 1..2, reply \in BOOLEAN :
       prompt = [NoPrompt EXCEPT
                   !.pc = "called", !.bot = bot,
                   !.reply_to_post =
                     IF reply
                     THEN [id |-> 1, bot_id |-> 3 - bot,
                           bot_name |-> PersonaNames[3 - bot]]
                     ELSE NoPost]

\* _generate_post up to the call of _generate_text_with_llm
call_generate_post_prompt ==
  /\ prompt.pc = "called"
  /\ LET r == full_prompt(active_bots[prompt.bot], topic_iteration_limit,
                          prompt.reply_to_post)
     IN  prompt' = [prompt EXCEPT !.pc = "returned", !.parts = r.parts,
                                  !.topic = r.topic,
                                  !.discussed = r.discussed]
  /\ UNCHANGED <<appVars, db_bots, posts, run_lock, threads, responses,
                 ghostVars, inboundVars, inference, split>>

NextPrompt == call_generate_post_prompt

SpecPrompt == InitPrompt /\ [][NextPrompt]_vars

(***************************************************************************)
(* Run batches with the two endpoints that rebuild the application object  *)
(* side by side.  Neither endpoint looks at run_lock; the requests taken   *)
(* here are those that arrive while a batch is executing.  REPLY_CHANCE is *)
(* 0.0 so that a cycle is its primary phase.                               *)
(***************************************************************************)
\* A request to rebuild the application object arrives during a batch.
DuringBatch == \E t \in 1..MaxRequests : Active(t)

\* POST /api/reset_app: the database file is deleted and a new
\* BitWitCoreApplication is built over the empty database.
reset_application_endpoint ==
  /\ DuringBatch
  /\ posts' = <<>>
  /\ post_info' = <<>>
  /\ bitwit_app_instance' =
       initialize_ok(personalities_dir_exists, persona_files)
  /\ \E r \in load_all_bots(persona_files, <<>>, <<>>) :
       /\ db_bots' = r.db_bots
       /\ active_bots' = r.active_bots
  /\ current_posting_bot_index' = 0
  /\ UNCHANGED <<configVars, run_lock, threads, responses, cycle_no, hist,
                 clean, last_evolve, last_run, n_update_bot, failures,
                 gen_error, cycle_calls, inboundVars, textVars>>

\* POST /api/update_config with a TOPIC_ITERATION_LIMIT: the setting is
\* stored and a new BitWitCoreApplication is built over the same database.
update_config_endpoint(limit) ==
  /\ DuringBatch
  /\ topic_iteration_limit' = limit
  /\ bitwit_app_instance' =
       initialize_ok(personalities_dir_exists, persona_files)
  /\ \E r \in load_all_bots(persona_files, db_bots, <<>>) :
       /\ db_bots' = r.db_bots
       /\ active_bots' = r.active_bots
  /\ current_posting_bot_index' = 0
  /\ UNCHANGED <<personalities_dir_exists, persona_files, reply_chance,
                 llm_outputs, posts, run_lock, threads, responses, ghostVars,
                 inboundVars, textVars>>

InitReset ==
  /\ InitRun
  /\ Len(persona_files) = MaxRoster
  /\ topic_iteration_limit = MaxLimit
  /\ reply_chance = 0
  /\ telegram_config = UnsetTelegramConfig

NextReset ==
  \/ \E count \in 0..MaxCount : run_bitwit(count)
  \/ \E t \in 1..MaxRequests : run_primary(t)
  \/ reset_application_endpoint
  \/ \E limit \in IterationLimits : update_config_endpoint(limit)

SpecReset == InitReset /\ [][NextReset]_vars

(***************************************************************************)
(* Properties.                                                             *)
(***************************************************************************)
RosterSize == Len(active_bots)
IsReply(i) == post_info[i].reply
ReplyPosts == {i \in 1..Len(posts) : IsReply(i)}
PrimaryPosts == {i \in 1..Len(posts) : ~IsReply(i)}
Evolved == last_evolve.bot # 0
ImplicitChange ==
  /\ Evolved
  /\ last_evolve.inferred # None
  /\ last_evolve.inferred # last_evolve.before.topic

\* C1: while no cycle has raised, the k-th completed cycle of the instance
\* (cursor starting at 0) was posted by roster[(k-1) mod N]: strict round
\* robin in roster order, repeating identically every N cycles.
C1_RoundRobin ==
  clean =>
    \A k \in 1..Len(hist) :
      /\ hist[k].cycle = k
      /\ hist[k].poster = active_bots[((k - 1) % RosterSize) + 1].name

\* C1 witness: a two-agent roster has completed four cycles (A, B, A, B).
C1_Witness ==
  /\ clean
  /\ RosterSize = 2
  /\ Len(hist) = 4
  /\ hist[1].poster # hist[2].poster
  /\ hist[3].poster = hist[1].poster
  /\ hist[4].poster = hist[2].poster

ActiveThreads == {t \in 1..MaxRequests : Active(t)}
AtMostOneBatch == Cardinality(ActiveThreads) <= 1
Requested == Len(responses') = Len(responses) + 1
NoCycleEffect ==
  UNCHANGED <<active_bots, current_posting_bot_index, db_bots, posts, threads,
              run_lock, cycle_no, hist>>

\* C2 (as claimed): at most one batch executes at any instant, and every run
\* request that arrives while the gate is held is answered "busy" and has no
\* other effect.
C2_Original ==
  /\ []AtMostOneBatch
  /\ [][(Requested /\ run_lock) =>
          /\ responses'[Len(responses')].status = "busy"
          /\ NoCycleEffect]_vars

\* C2 (amended): at most one batch executes at any instant; a run request that
\* arrives while the gate is held starts nothing and changes nothing, and is
\* answered "busy" when its count is valid (an integer >= 1) and "invalid
\* count" otherwise, the count being validated before the gate is tried.
C2_SingleFlight ==
  /\ []AtMostOneBatch
  /\ [][(Requested /\ run_lock) =>
          /\ responses'[Len(responses')].status =
               IF responses'[Len(responses')].count >= 1
               THEN "busy" ELSE "invalid_count"
          /\ NoCycleEffect]_vars

\* C2 witness: a valid request was answered "busy" while a batch is executing.
C2_Witness ==
  /\ ActiveThreads # {}
  /\ \E i \in 1..Len(responses) :
       responses[i].status = "busy" /\ responses[i].count >= 1

\* C3: the state after steps 1-3 of the last evolve follows exactly one of
\* the three rules: same topic -> counter + 1; different non-none topic ->
\* that topic with counter 1; none -> counter + 1 on the unchanged topic.
C3_EvolveSteps ==
  Evolved =>
    LET b == last_evolve.before
        inf == last_evolve.inferred
        m == last_evolve.mid
    IN  /\ inf = b.topic =>
             m = [topic |-> b.topic, count |-> b.count + 1]
        /\ (inf # None /\ inf # b.topic) =>
             m = [topic |-> inf, count |-> 1]
        /\ inf = None =>
             m = [topic |-> b.topic, count |-> b.count + 1]

\* C3 witness: an evolve with no topic inferred advanced a counter that was
\* already positive.
C3_Witness ==
  /\ Evolved
  /\ last_evolve.inferred = None
  /\ last_evolve.before.count > 0
  /\ last_evolve.mid.count = last_evolve.before.count + 1

\* C4: step 4 of the last evolve resets the counter to 0 exactly when the
\* counter after steps 1-3 is >= the limit, and then picks a taxonomy topic
\* different from the one held just before the reset; below the limit it
\* changes nothing; over a single-entry taxonomy it keeps the topic.
C4_ForcedRotation ==
  Evolved =>
    LET m == last_evolve.mid
        a == last_evolve.after
        limit == last_evolve.limit
        single == [id |-> 1, name |-> "Bitwit", current_topic |-> m.topic,
                   topic_iteration_count |-> m.count]
    IN  /\ m.count >= limit =>
             /\ a.count = 0
             /\ a.topic # m.topic
             /\ a.topic \in Range(BITWIT_CORE_THEMES)
        /\ m.count < limit => a = m
        /\ (a.count = 0) <=> (m.count >= limit)
        /\ Len(BITWIT_CORE_THEMES) > 1
        /\ m.count >= limit =>
             forced_rotation(<<m.topic>>, single, limit) =
               {[single EXCEPT !.topic_iteration_count = 0]}

\* C4 witness: a forced rotation fired right after an implicit topic change.
C4_Witness ==
  /\ ImplicitChange
  /\ last_evolve.mid.topic = last_evolve.inferred
  /\ last_evolve.mid.count >= last_evolve.limit
  /\ last_evolve.after.count = 0

\* C5 (as claimed): after an evolve that changed the topic implicitly the
\* counter is 1, whatever the limit.
C5_Original == ImplicitChange => last_evolve.after.count = 1

\* C5 (amended): after an evolve that changed the topic implicitly the
\* counter is 1 and the topic is the inferred one when the limit is >= 2;
\* with limit 1 the forced rotation fires in the same evolve, so the counter
\* is 0 and the topic is a further one.
C5_ImplicitChange ==
  ImplicitChange =>
    IF last_evolve.limit >= 2
    THEN /\ last_evolve.after.count = 1
         /\ last_evolve.after.topic = last_evolve.inferred
    ELSE /\ last_evolve.after.count = 0
         /\ last_evolve.after.topic # last_evolve.inferred

\* C5 witness: an implicit change under limit 2 from a counter already at 1.
C5_Witness ==
  /\ ImplicitChange
  /\ last_evolve.limit >= 2
  /\ last_evolve.before.count = 1
  /\ last_evolve.after.count = 1

\* C6: every roster agent's current topic, in memory and in the table, is a
\* taxonomy identifier, every inferred topic is one or none, and the keyword
\* table used for inference has exactly the identifiers used for rotation.
C6_TopicInTaxonomy ==
  /\ \A i \in 1..Len(active_bots) :
       active_bots[i].current_topic \in Range(BITWIT_CORE_THEMES)
  /\ \A i \in 1..Len(db_bots) :
       db_bots[i].current_topic \in Range(BITWIT_CORE_THEMES)
  /\ last_evolve.inferred \in Range(BITWIT_CORE_THEMES) \cup {None}
  /\ {topic_keywords[i].topic : i \in 1..Len(topic_keywords)} =
       Range(BITWIT_CORE_THEMES)

\* C6 witness: an agent created at start-up has since had its topic changed
\* implicitly and then by a forced rotation, all three within the taxonomy.
C6_Witness ==
  /\ ImplicitChange
  /\ last_evolve.after.count = 0
  /\ last_evolve.after.topic # last_evolve.mid.topic
  /\ active_bots[last_evolve.bot].current_topic = last_evolve.after.topic

Ran == last_run.cycle # 0

\* C7: after a primary post, with more than one agent a reply is triggered
\* iff the sample is below reply_chance, and the replier is a roster agent
\* other than the poster (the other one when there are two); with
\* reply_chance 0 or a single agent no reply is triggered or recorded.
C7_ReplyDecision ==
  /\ Ran =>
       /\ RosterSize > 1 =>
            /\ last_run.sample \in Samples
            /\ (last_run.replier # 0) <=> (last_run.sample < reply_chance)
       /\ last_run.replier # 0 =>
            /\ last_run.replier \in 1..RosterSize
            /\ last_run.replier # last_run.poster
       /\ (RosterSize = 2 /\ reply_chance = 10) =>
            last_run.replier = 3 - last_run.poster
       /\ RosterSize = 1 => (last_run.replier = 0 /\ last_run.sample = -1)
  /\ (reply_chance = 0 \/ RosterSize <= 1) =>
       /\ ReplyPosts = {}
       /\ \A t \in 1..MaxRequests : threads[t].pc # "reply"

\* C7 witness: with reply_chance 1.0 and two agents the second agent posted
\* and the first was designated replier.
C7_Witness ==
  /\ Ran
  /\ RosterSize = 2
  /\ reply_chance = 10
  /\ last_run.poster = 2
  /\ last_run.replier = 1
  /\ \E t \in 1..MaxRequests : threads[t].pc = "reply"

PostsOfCycle(c) == {i \in 1..Len(posts) : post_info[i].cycle = c}

\* C8: every completed cycle recorded exactly one primary post and at most
\* one reply; no cycle recorded more than one reply; the target of a reply is
\* never itself a reply.
C8_NoChaining ==
  /\ \A k \in 1..Len(hist) :
       /\ Cardinality(PostsOfCycle(hist[k].cycle) \cap PrimaryPosts) = 1
       /\ Cardinality(PostsOfCycle(hist[k].cycle) \cap ReplyPosts) <= 1
  /\ \A c \in 1..cycle_no :
       /\ Cardinality(PostsOfCycle(c) \cap PrimaryPosts) <= 1
       /\ Cardinality(PostsOfCycle(c) \cap ReplyPosts) <= 1
  /\ \A i \in 1..Len(posts) :
       posts[i].in_reply_to_tweet_id # 0 =>
         /\ posts[i].in_reply_to_tweet_id \in 1..Len(posts)
         /\ posts[posts[i].in_reply_to_tweet_id].in_reply_to_tweet_id = 0

\* C8 witness: two cycles have completed, each with its primary post and its
\* single reply.
C8_Witness ==
  /\ Len(hist) = 2
  /\ Len(posts) = 4
  /\ Cardinality(ReplyPosts) = 2

\* C9: a reply post names as target the id and the author of the primary
\* post recorded earlier in the same cycle, and is by another author; a
\* primary post has no target.
C9_ReplyTarget ==
  /\ \A i \in ReplyPosts :
       \E j \in PrimaryPosts :
         /\ j < i
         /\ post_info[j].cycle = post_info[i].cycle
         /\ posts[i].in_reply_to_tweet_id = posts[j].id
         /\ posts[i].in_reply_to_author_name = db_bots[posts[j].bot_id].name
         /\ posts[i].bot_id # posts[j].bot_id
         /\ db_bots[posts[i].bot_id].name # db_bots[posts[j].bot_id].name
  /\ \A j \in PrimaryPosts :
       /\ posts[j].in_reply_to_tweet_id = 0
       /\ posts[j].in_reply_to_author_name = None
  /\ \A i \in 1..Len(posts) : posts[i].id = i

\* C9 witness: the second agent's primary post (cycle 2) has been answered.
C9_Witness ==
  \E i \in ReplyPosts :
    /\ post_info[i].cycle = 2
    /\ posts[i].in_reply_to_author_name = active_bots[2].name
    /\ posts[i].in_reply_to_tweet_id = i - 1

ReplyPhaseActs(t) == threads[t].pc = "reply" /\ threads'[t] # threads[t]
PrimaryPhaseActs(t) == threads[t].pc = "primary" /\ threads'[t] # threads[t]

\* C10: a reply phase leaves every agent's topic and counter, the persisted
\* agent rows and the number of update_bot calls unchanged; an agent's topic
\* state changes only in a primary phase, and only for the poster.
C10_ReplyFrame ==
  [][/\ \A t \in 1..MaxRequests :
          ReplyPhaseActs(t) =>
            /\ active_bots' = active_bots
            /\ db_bots' = db_bots
            /\ n_update_bot' = n_update_bot
            /\ last_evolve' = last_evolve
     /\ \A i \in 1..Len(active_bots) :
          (Len(active_bots') = Len(active_bots)
             /\ active_bots'[i] # active_bots[i]) =>
            /\ \E t \in 1..MaxRequests : PrimaryPhaseActs(t)
            /\ i = current_posting_bot_index + 1]_vars

\* C10 witness: one cycle with a reply has completed and the only update_bot
\* call was the poster's.
C10_Witness ==
  /\ Len(hist) = 1
  /\ Cardinality(ReplyPosts) = 1
  /\ n_update_bot = 1
  /\ last_evolve.bot = 1

(***************************************************************************)
(* Properties of the inbound path.                                         *)
(***************************************************************************)
Handlers == 1..Len(inbound)

\* The message object an update carries, read off the payload itself.
CarriedMessage(data) ==
  IF data.message # NoMessage THEN data.message
  ELSE IF data.channel_post # NoMessage THEN data.channel_post
  ELSE data.edited_channel_post

Msg(h) == CarriedMessage(inbound[h].data)
Finished(h) == inbound[h].pc \in {"returned", "raised"}
CallsOf(h, evs) ==
  {k \in 1..Len(inbound[h].calls) : inbound[h].calls[k].ev \in evs}
Generations(h) == CallsOf(h, {"generate_text", "generate_image"})
Deliveries(h) == CallsOf(h, {"send_message", "send_photo"})
Fallbacks(h) ==
  {k \in 1..Len(inbound[h].calls) : inbound[h].calls[k].what = "fallback"}
SamplesDrawn(h) ==
  Cardinality({k \in 1..Len(inbound[h].outcomes) :
                 inbound[h].outcomes[k].samples > 0})

\* Every roster agent has a handle registered (the username setting is a
\* string), so that "its registered handle" is defined for each.
HandlesRegistered ==
  \A i \in 1..Len(active_bots) :
    ~get_username(telegram_config, active_bots[i].name).is_none

\* The roster positions a text mentions: the handle anywhere, or the name
\* preceded by a space, case-insensitive.
Mentioned(text) ==
  {i \in 1..Len(active_bots) :
     LET name == active_bots[i].name
         username == get_username(telegram_config, name)
     IN  \/ ~username.is_none /\ Contains(lower(username.s), lower(text))
         \/ Contains(<<" ">> \o lower(Chars(name)), lower(text))}

FirstMentioned(text) ==
  CHOOSE i \in Mentioned(text) : \A j \in Mentioned(text) : i <= j

GroupKind(m) == m.chat \in {"group", "supergroup", "channel"}

\* A message the cascade reaches rule 3 or 4 with: it has a chat and a
\* sender, handles are registered, and the text mentions no roster agent.
Unmentioned(h) ==
  /\ Msg(h) # NoMessage
  /\ Msg(h).chat # "absent"
  /\ Msg(h).from # "absent"
  /\ HandlesRegistered
  /\ Mentioned(Msg(h).text) = {}

\* C11: when the text mentions roster agents, every routing decision for
\* the message takes the first mentioned agent in roster order as the
\* responder, draws no random sample, and every reply generated for the
\* message is generated by that agent and no other.
C11_Original ==
  \A h \in Handlers :
    (/\ Msg(h) # NoMessage
     /\ Msg(h).from # "absent"
     /\ HandlesRegistered
     /\ Mentioned(Msg(h).text) # {})
    => LET first == FirstMentioned(Msg(h).text)
       IN  /\ \A k \in 1..Len(inbound[h].outcomes) :
                /\ inbound[h].outcomes[k].samples = 0
                /\ inbound[h].outcomes[k].status = "respond"
                /\ inbound[h].outcomes[k].responder = first
           /\ \A k \in Generations(h) :
                inbound[h].calls[k].bot = active_bots[first].name

\* C12: no exception leaves handle_telegram_message, whatever the payload.
C12_Original ==
  \A h \in Handlers : inbound[h].pc # "raised"

\* C13: a message whose handling raised gets one fallback delivery and no
\* generation or delivery call after it.
C13_Original ==
  \A h \in Handlers :
    /\ Cardinality(Fallbacks(h)) <= 1
    /\ \A k \in Fallbacks(h) : k = Len(inbound[h].calls)

\* C14: an update that carries no message object (no message, channel post
\* or edited channel post) gets no responder, no generation call and no
\* delivery call, and the handler returns.
C14_NoMessageObject ==
  \A h \in Handlers :
    Msg(h) = NoMessage =>
      /\ inbound[h].calls = <<>>
      /\ inbound[h].pc # "raised"
      /\ \A k \in 1..Len(inbound[h].outcomes) :
           /\ inbound[h].outcomes[k].exit = "no_message"
           /\ inbound[h].outcomes[k].responder = 0

\* C14 witness: a handler has returned on an update without message object.
C14_Witness ==
  \E h \in Handlers :
    /\ Msg(h) = NoMessage
    /\ inbound[h].pc = "returned"
    /\ Len(inbound[h].outcomes) = 1

\* C15: for a group or channel message that mentions nobody, exactly one
\* random sample is drawn, and when it is not below reply_chance there is
\* no generation and no delivery call.
C15_Original ==
  \A h \in Handlers :
    (Unmentioned(h) /\ GroupKind(Msg(h)) /\ Len(inbound[h].outcomes) > 0)
    => /\ SamplesDrawn(h) = 1
       /\ inbound[h].outcomes[1].sample >= reply_chance
            => inbound[h].calls = <<>>

\* C16: in a group or channel, for a message without mention sent by a
\* roster agent, a sample below reply_chance selects a responder that is a
\* roster agent other than the sender (the other one of two).
C16_Original ==
  \A h \in Handlers :
    (Unmentioned(h) /\ GroupKind(Msg(h)) /\ Msg(h).sender # 0)
    => \A k \in 1..Len(inbound[h].outcomes) :
         LET o == inbound[h].outcomes[k]
         IN  (o.samples > 0 /\ o.sample < reply_chance)
             => /\ o.status = "respond"
                /\ o.responder \in 1..Len(active_bots)
                /\ o.responder # Msg(h).sender
                /\ Len(active_bots) = 2 => o.responder = 3 - Msg(h).sender

\* C17: in a group or channel, for a message without mention sent by a
\* human or by a bot that is no roster agent, a sample below reply_chance
\* selects some roster agent as the responder.
C17_Original ==
  \A h \in Handlers :
    (Unmentioned(h) /\ GroupKind(Msg(h)) /\ Msg(h).sender = 0)
    => \A k \in 1..Len(inbound[h].outcomes) :
         LET o == inbound[h].outcomes[k]
         IN  (o.samples > 0 /\ o.sample < reply_chance)
             => /\ o.status = "respond"
                /\ o.responder \in 1..Len(active_bots)

C19_Original ==
  \A h \in Handlers :
    (/\ Msg(h) # NoMessage
     /\ Msg(h).chat # "absent"
     /\ Msg(h).from # "absent"
     /\ HandlesRegistered
     /\ Msg(h).text = <<>>)
    => inbound[h].calls = <<>>

\* C20: the webhook never goes through the run gate: every inbound update,
\* also one that arrives while a run batch holds the gate, is acknowledged
\* with "ok", and unless its body is empty a handler thread is started for
\* it.
C20_InboundNotGated ==
  \A k \in 1..Len(webhook_responses) :
    LET r == webhook_responses[k]
    IN  /\ r.status = "ok"
        /\ r.message = "Message received" => r.thread \in Handlers
        /\ r.message = "Empty request" <=> r.thread = 0

\* C20 witness: an update arrived while the gate was held, and its handler
\* has generated and delivered a reply while the run batch is still active.
C20_Witness ==
  \E h \in Handlers :
    /\ inbound[h].gate
    /\ run_lock
    /\ ActiveThreads # {}
    /\ Generations(h) # {}
    /\ \E k \in Deliveries(h) : inbound[h].calls[k].what = "reply"

(***************************************************************************)
(* Properties of topic inference.                                          *)
(***************************************************************************)
Inferred == inference.pc = "returned"
Entries == 1..Len(topic_keywords)
PosterTopic == active_bots[current_posting_bot_index + 1].current_topic
TopScore == CHOOSE m \in Range(inference.scores) :
              \A i \in Entries : inference.scores[i] <= m
Tied == {i \in Entries : inference.scores[i] = TopScore}
FirstTied == CHOOSE i \in Tied : \A j \in Tied : i <= j

\* The keywords of entry i that occur at least once in the lowered text.
KeywordsPresent(i, text) ==
  {j \in 1..Len(topic_keywords[i].keywords) :
     Occurrences(topic_keywords[i].keywords[j], lower(text)) >= 1}

\* The keyword lists of the two-entry example taxonomy.
ExampleLove ==
  << <<"l", "o", "v", "e">>,
     <<"c", "o", "n", "n", "e", "c", "t", "i", "o", "n">> >>
ExampleCrypto ==
  << <<"b", "l", "o", "c", "k", "c", "h", "a", "i", "n">>,
     <<"c", "o", "i", "n">> >>

\* C25 (as claimed): the score of an entry is the total number of
\* occurrences of its keywords in the lowered text; for the example
\* taxonomy and "I love this connection, it's pure love" the love score is 3
\* and the crypto score 0.
C25_Original ==
  Inferred =>
    /\ \A i \in Entries :
         inference.scores[i] =
           SumOccurrences(topic_keywords[i].keywords, lower(inference.text))
    /\ inference.text = TextPureLove =>
         /\ KeywordScore(ExampleLove, lower(inference.text)) = 3
         /\ KeywordScore(ExampleCrypto, lower(inference.text)) = 0

\* C25 (amended): the score of an entry is the number of its keywords that
\* occur in the lowered text, a keyword counting once however often it
\* occurs; for the example taxonomy and "I love this connection, it's pure
\* love" the love score is 2 and the crypto score 0.
C25_KeywordScore ==
  Inferred =>
    /\ \A i \in Entries :
         inference.scores[i] = Cardinality(KeywordsPresent(i, inference.text))
    /\ inference.text = TextPureLove =>
         /\ KeywordScore(ExampleLove, lower(inference.text)) = 2
         /\ KeywordScore(ExampleCrypto, lower(inference.text)) = 0

\* C25 witness: the example text has been scored; "love" occurs twice in it
\* and the love entry scores 2 ("love" and "connection").
C25_Witness ==
  /\ Inferred
  /\ inference.text = TextPureLove
  /\ Occurrences(<<"l", "o", "v", "e">>, lower(inference.text)) = 2
  /\ inference.scores[1] = 2

\* C26: the inferred topic is a taxonomy entry whose score is maximal over
\* all entries, and it is none exactly when every entry scores 0.
C26_MaximalScore ==
  Inferred =>
    /\ (inference.inferred_topic = None) <=>
         (\A i \in Entries : inference.scores[i] = 0)
    /\ inference.inferred_topic # None =>
         \E i \in Entries :
           /\ topic_keywords[i].topic = inference.inferred_topic
           /\ \A j \in Entries : inference.scores[j] <= inference.scores[i]

\* C26 witness: the last entry won with score 2 although the poster's
\* current topic, an earlier entry, scored 1.
C26_Witness ==
  /\ Inferred
  /\ inference.text = TextLearn
  /\ PosterTopic = "resource_acquisition_and_efficiency"
  /\ inference.scores[2] = 1
  /\ inference.inferred_topic = "AI_curiosity_and_learning"

\* C27: when several entries share the maximal non-zero score, the inferred
\* topic is the poster's current topic if it is one of them, wherever it
\* stands in declaration order, and else the first of them in declaration
\* order.
C27_TieBreak ==
  (Inferred /\ TopScore > 0 /\ Cardinality(Tied) > 1) =>
    IF \E i \in Tied : topic_keywords[i].topic = PosterTopic
    THEN inference.inferred_topic = PosterTopic
    ELSE inference.inferred_topic = topic_keywords[FirstTied].topic

\* C27 witness: three entries tied at score 1 and the poster's current
\* topic, the last of them in declaration order, was inferred.
C27_Witness ==
  /\ Inferred
  /\ Cardinality(Tied) = 3
  /\ TopScore = 1
  /\ PosterTopic = topic_keywords[6].topic
  /\ FirstTied = 1
  /\ inference.inferred_topic = PosterTopic

(***************************************************************************)
(* Properties of the split.                                                *)
(***************************************************************************)
\* The marker of split_generation: IMAGE PROMPT in any case.
Marker == <<"i", "m", "a", "g", "e", " ", "p", "r", "o", "m", "p", "t">>

\* split_generation as the contract words it: the first case-insensitive
\* occurrence of the marker, a colon after it belonging to the marker.
split_generation(text) ==
  LET i == first_index(Marker, lower(text))
      after == i + Len(Marker)
      rest == IF after <= Len(text) /\ text[after] = ":"
              THEN SubSeq(text, after + 1, Len(text))
              ELSE SubSeq(text, after, Len(text))
  IN  IF i = 0
      THEN [text_content |-> strip(text), image_prompt |-> NoneValue]
      ELSE [text_content |-> strip(SubSeq(text, 1, i - 1)),
            image_prompt |-> Str(strip(rest))]

\* C30: at both call sites the split gives the narrative and the image
\* directive of split_generation: cut at the first case-insensitive IMAGE
\* PROMPT with optional colon, both parts trimmed; without marker the
\* trimmed input and no directive.
C30_Original ==
  split.pc = "returned" =>
    /\ split.text_content = split_generation(split.llm_response).text_content
    /\ split.image_prompt = split_generation(split.llm_response).image_prompt

(***************************************************************************)
(* Error handling of the posting cycle.                                    *)
(***************************************************************************)
PrimaryPostsOf(cycle) ==
  {i \in 1..Len(post_info) :
     post_info[i].cycle = cycle /\ ~post_info[i].reply}

PostsOf(cycle) == {i \in 1..Len(post_info) : post_info[i].cycle = cycle}

\* C21: when the generative service fails during a primary post and no
\* persistence call fails, the cycle does not raise; it records exactly one
\* primary post, by the poster, whose narrative is the error placeholder; the
\* topic engine runs on the placeholder (no taxonomy entry matches, the
\* poster's iteration count goes up by one); and the cursor advances by one.
C21_GenerationRecovery ==
  (gen_error.cycle # 0 /\ ~gen_error.reply
     /\ gen_error.raised # "persistence") =>
    /\ gen_error.raised = "none"
    /\ gen_error.llm_response = ErrorPlaceholder
    /\ gen_error.tweet_text = ErrorPlaceholder
    /\ gen_error.post \in 1..Len(posts)
    /\ PrimaryPostsOf(gen_error.cycle) = {gen_error.post}
    /\ posts[gen_error.post].bot_id = active_bots[gen_error.poster].id
    /\ gen_error.inferred = None
    /\ gen_error.mid = [topic |-> gen_error.before.topic,
                        count |-> gen_error.before.count + 1]
    /\ gen_error.cursor.after = (gen_error.cursor.before + 1) % RosterSize

\* C21 witness: the service failed in the primary post of a cycle that went
\* on to complete, in a batch that never raised.
C21_Witness ==
  /\ clean
  /\ gen_error.cycle # 0
  /\ ~gen_error.reply
  /\ gen_error.raised = "none"
  /\ \E k \in 1..Len(hist) : hist[k].cycle = gen_error.cycle

\* C22: a step in which add_post or update_bot fails leaves run(): the cycle
\* is not recorded as completed, the cursor is not advanced by that step, and
\* the caller (run_in_thread) abandons the rest of the batch and releases the
\* gate.
C22_PersistencePropagates ==
  [][failures' = failures + 1 =>
       /\ clean' = FALSE
       /\ hist' = hist
       /\ current_posting_bot_index' = current_posting_bot_index
       /\ run_lock' = FALSE
       /\ \E t \in 1..MaxRequests :
            /\ Active(t)
            /\ threads'[t].pc = "done"
            /\ threads'[t].left = 0
            /\ \A u \in 1..MaxRequests \ {t} : threads'[u] = threads[u]]_vars

\* C22 witness: a batch of two cycles was abandoned in its first cycle by a
\* persistence error.
C22_Witness ==
  /\ failures = 1
  /\ ~clean
  /\ Len(responses) = 1
  /\ responses[1].count = 2
  /\ threads[1].pc = "done"
  /\ cycle_no = 1
  /\ hist = <<>>

\* C23: with the persona directory missing or holding no loadable persona
\* the application object is never built, no batch is started, no post is
\* recorded and no generation call is made; and an application object never
\* has an empty roster.
C23_FatalStartup ==
  /\ bitwit_app_instance => Len(active_bots) > 0
  /\ (~personalities_dir_exists \/ Len(persona_files) = 0) =>
       /\ ~bitwit_app_instance
       /\ \A t \in 1..MaxRequests : threads[t] = NoThread
       /\ posts = <<>>
       /\ cycle_no = 0
       /\ cycle_calls = NoCalls

\* C23 witness: the persona directory is missing and a run request has been
\* answered with the initialisation failure.
C23_Witness ==
  /\ ~personalities_dir_exists
  /\ Len(responses) >= 1
  /\ responses[1].status = "init_failed"
  /\ posts = <<>>

(***************************************************************************)
(* Scheduling, storage and resources.                                      *)
(***************************************************************************)
RosterNames == {active_bots[i].name : i \in 1..RosterSize}

\* C24: while no cycle has raised, any RosterSize consecutive completed
\* cycles have every roster agent as poster; and a started batch of
\* RosterSize cycles ends, having raised or having had every agent post.
C24_NoStarvation ==
  /\ [](clean =>
          \A k \in 1..(Len(hist) - RosterSize + 1) :
            {hist[j].poster : j \in k..(k + RosterSize - 1)} = RosterNames)
  /\ (\E t \in 1..MaxRequests :
        threads[t].pc = "primary" /\ threads[t].left = RosterSize
          /\ hist = <<>>)
       ~> (/\ ActiveThreads = {}
           /\ (~clean \/ {hist[j].poster : j \in 1..Len(hist)}
                            = RosterNames))

\* C24 witness: three cycles completed over a two-agent roster, one of them on
\* the error placeholder, and the first poster has posted again.
C24_Witness ==
  /\ clean
  /\ RosterSize = 2
  /\ Len(hist) = 3
  /\ hist[3].poster = hist[1].poster
  /\ gen_error.cycle # 0

\* C28: every step keeps the recorded posts as a prefix of the table.
C28_AppendOnly ==
  [][/\ Len(posts') >= Len(posts)
     /\ \A i \in 1..Len(posts) : posts'[i] = posts[i]]_vars

\* C28 witness: a primary post, its reply and a later post are recorded.
C28_Witness ==
  /\ Len(posts) = 3
  /\ post_info[2].reply
  /\ posts[1].id = 1 /\ posts[2].id = 2 /\ posts[3].id = 3

TextGenerations(h) == CallsOf(h, {"generate_text"})

\* C32: for one inbound message the handler makes at most one text
\* generation call and at most one delivery to the chat, and a delivered
\* reply comes from the agent that generated it.
C32_Original ==
  \A h \in Handlers :
    /\ Cardinality(TextGenerations(h)) <= 1
    /\ Cardinality(Deliveries(h)) <= 1
    /\ \A j \in TextGenerations(h), k \in Deliveries(h) :
         inbound[h].calls[k].what = "reply"
           => inbound[h].calls[k].bot = inbound[h].calls[j].bot

\* What rules 3 and 4 give for a message that rule 2 matched no agent on:
\* in a group one sample is drawn; in a private chat the default agent
\* answers the text as sent.
ByGroupOrPrivateRule(m, o) ==
  IF GroupKind(m) THEN o.samples = 1
  ELSE /\ o.status = "respond"
       /\ o.responder = private_responder(active_bots)
       /\ o.cleaned_text = m.text
       /\ o.samples = 0

\* C39: when the text holds no registered handle and no space-prefixed
\* display name of a roster agent, every routing decision for the message is
\* the one of the group or private rule, also when an agent has no handle
\* registered.
C39_Original ==
  \A h \in Handlers :
    (/\ Msg(h) # NoMessage
     /\ Msg(h).chat # "absent"
     /\ Msg(h).from # "absent"
     /\ Mentioned(Msg(h).text) = {})
    => \A k \in 1..Len(inbound[h].outcomes) :
         ByGroupOrPrivateRule(Msg(h), inbound[h].outcomes[k])

(***************************************************************************)
(* The gate of run_bitwit.                                                 *)
(***************************************************************************)
\* C33: the gate is held only while a batch is executing, and a run request
\* that arrives while no batch is executing is never answered "busy".
C33_Original ==
  [][/\ run_lock' => ActiveThreads' # {}
     /\ (Requested /\ ActiveThreads = {})
          => responses'[Len(responses')].status # "busy"]_vars

(***************************************************************************)
(* The cursor and the phases of a cycle.                                   *)
(***************************************************************************)
Raises == failures' = failures + 1

\* C34: a primary phase that does not raise records one post by the agent at
\* the cursor, leaves that agent's topic state persisted and advances the
\* cursor by one modulo the roster size; a primary phase that raises leaves
\* the cursor where it was, so that the agent at the cursor, the poster of
\* the next cycle, is the same; a reply phase, raising or not, leaves the
\* cursor and the recorded posts as they were.
C34_CursorAdvance ==
  [][\A t \in 1..MaxRequests :
       /\ PrimaryPhaseActs(t) =>
            IF Raises
            THEN /\ current_posting_bot_index' = current_posting_bot_index
                 /\ active_bots'[current_posting_bot_index' + 1].id
                      = active_bots[current_posting_bot_index + 1].id
            ELSE /\ current_posting_bot_index'
                      = (current_posting_bot_index + 1) % RosterSize
                 /\ Len(posts') = Len(posts) + 1
                 /\ posts'[Len(posts')].bot_id
                      = active_bots[current_posting_bot_index + 1].id
                 /\ db_bots'[active_bots[current_posting_bot_index + 1].id]
                      = active_bots'[current_posting_bot_index + 1]
       /\ ReplyPhaseActs(t) =>
            /\ current_posting_bot_index' = current_posting_bot_index
            /\ \A i \in 1..Len(posts) : posts'[i] = posts[i]]_vars

\* C34 witness: over two agents the first cycle raised in its primary phase
\* with nothing recorded, and the second cycle was posted by the same first
\* agent, after which the cursor stands at the second.
C34_Witness ==
  /\ RosterSize = 2
  /\ failures = 1
  /\ cycle_no = 2
  /\ Len(posts) = 1
  /\ post_info[1].cycle = 2
  /\ posts[1].bot_id = active_bots[1].id
  /\ current_posting_bot_index = 1

(***************************************************************************)
(* The inbound path and the state of the posting path.                     *)
(***************************************************************************)
InboundActs == inbound' # inbound \/ webhook_responses' # webhook_responses

\* C35: a step of the inbound path (the webhook or a handler thread),
\* wherever it falls among the steps of a run batch, leaves the cursor, the
\* roster with every agent's topic and iteration count, the bots table and
\* the recorded posts unchanged.
C35_InboundFrame ==
  [][InboundActs =>
       UNCHANGED <<current_posting_bot_index, active_bots, db_bots,
                   posts>>]_vars

\* C35 witness: an update arrived while a batch held the gate and its
\* handler has generated a reply; both cycles of the batch are recorded and
\* the cursor is back at the start.
C35_Witness ==
  /\ RosterSize = 2
  /\ Len(posts) = 2
  /\ cycle_no = 2
  /\ current_posting_bot_index = 0
  /\ \E h \in Handlers :
       /\ Finished(h)
       /\ inbound[h].gate
       /\ Generations(h) # {}

(***************************************************************************)
(* The application object during a batch.                                  *)
(***************************************************************************)
\* The batch of thread t has completed a cycle before this one.
LaterCycle(t) == threads[t].left < responses[t].count

\* C36: while a batch is executing, a step that is not a step of the batch
\* leaves the application object, its roster and its cursor as they are;
\* and the poster of every cycle of a batch but the first is the roster
\* successor of the poster of the cycle before.
C36_Original ==
  [][/\ (ActiveThreads # {} /\ threads' = threads) =>
          UNCHANGED <<bitwit_app_instance, active_bots,
                      current_posting_bot_index>>
     /\ \A t \in 1..MaxRequests :
          (PrimaryPhaseActs(t) /\ LaterCycle(t)
             /\ last_run'.cycle = cycle_no') =>
            last_run'.poster = (last_run.poster % RosterSize) + 1]_vars

(***************************************************************************)
(* Ranges of the counter and of the cursor.                                *)
(***************************************************************************)
CounterRange(limit) == 0..(limit - 1)

\* C37: an evolve that starts with the iteration counter in 0 .. limit-1
\* ends with it in 0 .. limit-1; and between cycles the counter of every
\* roster agent, in memory and in the bots table, is in that range.
C37_CounterBelowLimit ==
  /\ (Evolved /\ last_evolve.before.count \in CounterRange(last_evolve.limit))
       => last_evolve.after.count \in CounterRange(last_evolve.limit)
  /\ \A i \in 1..Len(active_bots) :
       active_bots[i].topic_iteration_count
         \in CounterRange(topic_iteration_limit)
  /\ \A i \in 1..Len(db_bots) :
       db_bots[i].topic_iteration_count \in CounterRange(topic_iteration_limit)

\* C37 witness: an evolve started one below a limit of two, reached the
\* limit without a topic change and was reset to 0.
C37_Witness ==
  /\ Evolved
  /\ last_evolve.limit = 2
  /\ last_evolve.before.count = 1
  /\ last_evolve.mid = [topic |-> last_evolve.before.topic, count |-> 2]
  /\ last_evolve.after.count = 0

\* C38: while the application object exists its cursor is a roster index,
\* 0 <= cursor < N with N > 0, and no step changes the roster length.
C38_CursorInRange ==
  /\ [](bitwit_app_instance =>
          /\ RosterSize > 0
          /\ current_posting_bot_index \in 0..(RosterSize - 1))
  /\ [][(bitwit_app_instance /\ bitwit_app_instance') =>
          Len(active_bots') = Len(active_bots)]_vars

\* C38 witness: over two agents three cycles have completed; the cursor has
\* wrapped to 0 and stands at 1 again.
C38_Witness ==
  /\ bitwit_app_instance
  /\ clean
  /\ RosterSize = 2
  /\ Len(hist) = 3
  /\ cycle_no = 3
  /\ current_posting_bot_index = 1

(***************************************************************************)
(* The prompt of a post.                                                   *)
(***************************************************************************)
Prompted == prompt.pc = "returned"
SuggestsShift == \E k \in 1..Len(prompt.parts) :
                   prompt.parts[k] = "consider_shifting"

\* C31: the prompt holds the suggestion to consider shifting topic exactly
\* when it is the prompt of a primary post and the poster's iteration count
\* is at least the limit minus one; the prompt of a reply never holds it.
C31_ShiftSuggestion ==
  Prompted =>
    /\ SuggestsShift <=>
         (/\ prompt.reply_to_post = NoPost
          /\ active_bots[prompt.bot].topic_iteration_count
               >= topic_iteration_limit - 1)
    /\ prompt.reply_to_post # NoPost => ~SuggestsShift

\* C31 witness: the prompt of a post by an agent one below a limit of two
\* holds the suggestion and names the one post discussed.
C31_Witness ==
  /\ Prompted
  /\ prompt.reply_to_post = NoPost
  /\ topic_iteration_limit = 2
  /\ active_bots[prompt.bot].topic_iteration_count = 1
  /\ SuggestsShift
  /\ prompt.discussed = 1

====
